---- MODULE Spec2Model ----
(***************************************************************************)
(* Model of the queue pipeline of the Facebook scraper:                    *)
(*   - the syncer service (services/syncer/syncer.js): the in-memory       *)
(*     resultBuffer, bufferResult, scheduleFlush, flushBuffer and the      *)
(*     shutdown handler, with every await as an interleaving point;        *)
(*   - the scrape queue and its producers (ingestor pollAndIngest and      *)
(*     POST /api/start-queue) with BullMQ's jobId semantics.               *)
(***************************************************************************)
EXTENDS Integers, Sequences, FiniteSets, TLC

VARIABLES
    \* ---- syncer process ----
    resultBuffer,   \* { sheetId: [results] }, kept in key insertion order
    flushTimer,     \* TRUE while the timeout stored in flushTimer is pending
    frame,          \* one activation record per running flushBuffer call
    shut,           \* position of the shutdown handler / process life
    saved,          \* outcomes whose row.save() has succeeded (the sheet)
    accepted,       \* the result jobs handed to processResult so far, in order
    failures,       \* number of sheet API errors injected so far
    flushCalls,     \* number of flushBuffer calls so far, per kind of caller
    lastLogs,       \* log lines emitted by the most recent step
    kept,           \* outcomes a "retry exhausted ... Keeping" line reported
    dropped,        \* outcomes a "Failed to flush results" line reported
    atSignal,       \* outcomes buffered when the shutdown signal arrived
    syncerFile,     \* which of the repository's two syncer.js files runs
    \* ---- scrape queue and its producers ----
    scrapeQueue,    \* jobs of 'scrape-queue' held by Redis
    ingestor,       \* activation record of pollAndIngest
    api,            \* activation record of POST /api/start-queue
    apiResponse,    \* response of the last POST /api/start-queue
    rowStatus,      \* status column of the sheet rows
    queuePaused,    \* whether 'scrape-queue' is paused
    \* ---- scrape worker and results queue ----
    runs,           \* activation records of processJob
    resultsQueue,   \* jobs of 'results-queue' held by Redis
    outcomes,         \* the outcomes resultsQueue.add has stored so far, in order
    infraErrors,    \* handler exceptions and stalls injected so far
    \* ---- scrapeUrl as a function ----
    scrapeIn,       \* the browser and page one scrapeUrl call meets
    scrapeOut,      \* the outcome processJob builds from it
    \* ---- ScraperEngine cookie sessions ----
    cookieSessions,       \* number of entries of this.cookieSessions
    currentSessionIndex,  \* this.currentSessionIndex
    rotateReturned,       \* value returned by the last rotateCookie()
    rotateCalls,          \* number of rotateCookie() calls so far
    \* ---- ingestor loop ----
    isRunning,      \* isRunning of startIngestor
    ingestProc,     \* the ingestor process: running, closing its queue, exited
    timeoutId,      \* delay of the pending runLoop timeout, 0 when none is pending
    poll,           \* activation record of runLoop / pollAndIngest
    lastPoll,       \* what the most recent finished poll did and returned
    pollCount,      \* number of finished polls
    addErrors,      \* number of calls that have rejected during polls
    \* ---- browser pool of the worker process ----
    browserPool,    \* { browser, isInitialized }
    launches,       \* number of chromium.launch() calls so far
    scrapes,        \* one activation record per scrapeUrl call
    contexts,       \* the browsing contexts that are open
    contextLog,     \* the browser of every context created so far
    \* ---- ScraperEngine polling ----
    isPolling,      \* this.isPolling
    cycle,          \* position of startPolling and the batch it awaits
    rowProc,        \* one activation record per processRow / processUrl call
    sheet,          \* status column of the sheet startPolling reads
    cycles,         \* number of batches started
    \* ---- JobManager ----
    jobs,           \* this.jobs: job record and the state of its polling loop
    \* ---- service startup ----
    redisUp,        \* whether Redis accepts connections
    services,       \* life of each service process
    \* ---- cookie sessions: ScraperParallel cursor, cookie injection ----
    parallelIndex,  \* ScraperParallel.currentSessionIndex
    parallelReturned, \* what the last ScraperParallel.rotateCookie() returned
    cookieEnv,      \* the cookie as configured in FACEBOOK_COOKIES
    engineCookie,   \* the same cookie as held in ScraperEngine.cookieSessions
    handed          \* cookies handed to context.addCookies, in order

syncerVars == <<resultBuffer, flushTimer, frame, shut, saved, accepted,
                failures, flushCalls, lastLogs, kept, dropped, atSignal,
                syncerFile>>
queueVars == <<scrapeQueue, ingestor, api, apiResponse, rowStatus, queuePaused>>
workerVars == <<runs, resultsQueue, outcomes, infraErrors>>
scrapeVars == <<scrapeIn, scrapeOut>>
engineVars == <<cookieSessions, currentSessionIndex, rotateReturned, rotateCalls>>
ingestVars == <<isRunning, ingestProc, timeoutId, poll, lastPoll, pollCount, addErrors>>
poolVars == <<browserPool, launches, scrapes, contexts, contextLog>>
pollVars == <<isPolling, cycle, rowProc, sheet, cycles>>
jobVars == <<jobs>>
startVars == <<redisUp, services>>
cookieVars == <<parallelIndex, parallelReturned, cookieEnv, engineCookie, handed>>
procVars == <<ingestVars, poolVars, pollVars, jobVars, startVars, cookieVars>>
vars == <<resultBuffer, flushTimer, frame, shut, saved, accepted, failures,
          flushCalls, lastLogs, kept, dropped, atSignal, syncerFile,
          scrapeQueue, ingestor, api, apiResponse, rowStatus, queuePaused,
          runs, resultsQueue, outcomes, infraErrors, scrapeIn, scrapeOut,
          cookieSessions, currentSessionIndex, rotateReturned, rotateCalls,
          isRunning, ingestProc, timeoutId, poll, lastPoll, pollCount, addErrors,
          browserPool, launches, scrapes, contexts, contextLog,
          isPolling, cycle, rowProc, sheet, cycles, jobs, redisUp, services,
          parallelIndex, parallelReturned, cookieEnv, engineCookie, handed>>

----------------------------------------------------------------------------
\* Bounds of the model
MaxOutcomes == 3          \* result jobs delivered while the sheet API is healthy
MaxQueueOutcomes == 1     \* result jobs the syncer takes while the producers run
MaxPipelineOutcomes == 2  \* result jobs the syncer takes in the pipeline of one sheet
MaxErrOutcomes == 2       \* result jobs delivered while the sheet API may fail
MaxFailures == 3          \* sheet API errors the environment may raise
MaxTimerCallbacks == 1    \* timer callbacks that may be running at once
MaxTimerFlushes == 2      \* flushes started by the flush timer
MaxSignals == 2           \* SIGTERM / SIGINT signals the process receives
\* Data rows of a sheet: getRows() returns this many rows (row 2 onwards); a
\* larger rowIndex is past the end of the sheet.  The sheet the ingestor
\* monitors has one row more than the other sheet.
SheetDataRows == 1

\* Program constants
BUFFER_SIZE == 2          \* SYNC_BUFFER_SIZE (default 50), set small here
maxRetries == 3
BackoffBaseMs == 1000

Sheets == {"s1", "s2"}
IngestorSheet == "s1"
RowCount(s) == IF s = IngestorSheet THEN SheetDataRows + 1 ELSE SheetDataRows
RowIndexes == {2, 3}
\* Row indexes of the outcomes delivered while the sheet API may fail.
ErrRowIndexes == {2}

----------------------------------------------------------------------------
\* Callers of flushBuffer: processResult/bufferResult (one job at a time,
\* concurrency 1), the timer callbacks, and the shutdown handler, which runs
\* once per signal.
BufCaller == [kind |-> "buf", n |-> 0]
ShutCaller == [kind |-> "shutdown", n |-> 0]
ShutCallers == {[kind |-> "shutdown", n |-> i] : i \in 0..(MaxSignals - 1)}
TimerCallers == {[kind |-> "timer", n |-> i] : i \in 1..MaxTimerCallbacks}
Callers == {BufCaller} \cup ShutCallers \cup TimerCallers

IdleFrame ==
    [pc |-> "idle", cur |-> "", rest |-> <<>>, attached |-> FALSE,
     detached |-> <<>>, retries |-> 0, rowsToSave |-> <<>>, updated |-> 0,
     index |-> 0, waitTime |-> 0]

\* The repository holds two versions of services/syncer/syncer.js, which
\* differ in flushBuffer only: part_002 updates the rows in memory, saves
\* them afterwards and retries a sheet on a rate-limit error; part_006 saves
\* each row inside its loop over `results` and has one catch for every error.
SyncerFiles == {"part_002", "part_006"}
RetryLoop == syncerFile = "part_002"

Log(c, msg, sheetId, n) == [by |-> c, msg |-> msg, sheetId |-> sheetId, n |-> n]

\* ---- the resultBuffer object -------------------------------------------
Keys(rb) == [i \in 1..Len(rb) |-> rb[i].sheetId]
HasKey(rb, s) == \E i \in 1..Len(rb) : rb[i].sheetId = s
Items(rb, s) ==
    IF HasKey(rb, s)
    THEN rb[CHOOSE i \in 1..Len(rb) : rb[i].sheetId = s].items
    ELSE <<>>
DeleteKey(rb, s) == SelectSeq(rb, LAMBDA e : e.sheetId # s)
Push(rb, o) ==
    IF HasKey(rb, o.sheetId)
    THEN [i \in 1..Len(rb) |->
            IF rb[i].sheetId = o.sheetId
            THEN [rb[i] EXCEPT !.items = Append(@, o)]
            ELSE rb[i]]
    ELSE Append(rb, [sheetId |-> o.sheetId, items |-> <<o>>])

RECURSIVE SumLen(_)
SumLen(rb) == IF rb = <<>> THEN 0 ELSE Len(Head(rb).items) + SumLen(Tail(rb))
TotalBuffered(rb) == SumLen(rb)

RECURSIVE Pow2(_)
Pow2(n) == IF n = 0 THEN 1 ELSE 2 * Pow2(n - 1)
\* const row = rows[rowIndex - 2]; if (row) ...
RowExists(s, rowIndex) == rowIndex - 2 >= 0 /\ rowIndex - 2 < RowCount(s)

\* The array a frame holds in `results`: the array still stored under
\* resultBuffer[cur] while attached, else the array as it was when the key
\* was deleted (nothing pushes to an array that left the buffer).
ResultsOf(rb, f) == IF f.attached THEN Items(rb, f.cur) ELSE f.detached
Results(st, c) == ResultsOf(st.rb, st.fr[c])

\* delete resultBuffer[sheetId]: frames holding that array keep it.
DeleteEntry(st, s) ==
    [st EXCEPT
        !.rb = DeleteKey(st.rb, s),
        !.fr = [c \in Callers |->
                    IF st.fr[c].pc # "idle" /\ st.fr[c].cur = s /\ st.fr[c].attached
                    THEN [st.fr[c] EXCEPT !.attached = FALSE,
                                          !.detached = Items(st.rb, s)]
                    ELSE st.fr[c]]]

AddLog(st, l) == [st EXCEPT !.logs = Append(@, l)]

\* scheduleFlush(): clearTimeout(flushTimer); flushTimer = setTimeout(...)
ScheduleFlush(st) == [st EXCEPT !.timer = TRUE]

\* What the caller does once `await flushBuffer()` resumes.
FlushReturn(st, c) ==
    LET done == [st EXCEPT !.fr[c] = IdleFrame] IN
    IF c \in ShutCallers
    THEN [done EXCEPT !.shut = "closing"]
    ELSE ScheduleFlush(done)

\* The `for (const sheetId of sheetsToFlush)` loop, run up to its next await:
\* sheets with no array or an empty array are skipped.
RECURSIVE NextSheet(_, _, _)
NextSheet(st, c, sheets) ==
    IF sheets = <<>>
    THEN FlushReturn(AddLog(st, Log(c, "Flush complete", "", 0)), c)
    ELSE IF Len(Items(st.rb, Head(sheets))) = 0
         THEN NextSheet(st, c, Tail(sheets))
         ELSE [st EXCEPT !.fr[c] =
                   [pc |-> "load", cur |-> Head(sheets), rest |-> Tail(sheets),
                    attached |-> TRUE, detached |-> <<>>, retries |-> 0,
                    rowsToSave |-> <<>>, updated |-> 0, index |-> 0,
                    waitTime |-> 0]]

\* flushBuffer() from its call to its first await (or its early return).
FlushBegin(st, c) ==
    LET called == [st EXCEPT !.calls[c.kind] = @ + 1] IN
    IF Len(st.rb) = 0
    THEN FlushReturn(called, c)
    ELSE NextSheet(AddLog(called, Log(c, "Flushing buffer", "", Len(st.rb))),
                   c, Keys(st.rb))

\* The outcome whose email and status the row object of results[i] holds
\* once the loop over `results` has run: the last one for that row.
LastForRow(results, i) ==
    LET same == {j \in 1..Len(results) : results[j].rowIndex = results[i].rowIndex}
    IN  results[CHOOSE j \in same : \A k \in same : k <= j]

\* rowsToSave: one entry per result whose row exists in the sheet, in the
\* order of `results`; each entry is the row object, given here by the
\* outcome whose values it holds (two results of one row share the object).
RowsToSave(s, results) ==
    LET held == [i \in 1..Len(results) |-> LastForRow(results, i)]
    IN  SelectSeq(held, LAMBDA o : RowExists(s, o.rowIndex))

\* success = true; delete resultBuffer[sheetId]; on to the next sheet.
SheetFlushed(st, c) ==
    NextSheet(DeleteEntry(st, st.fr[c].cur), c, st.fr[c].rest)

----------------------------------------------------------------------------
\* The syncer's state as one record, threaded through the helpers above.
St ==
    [rb |-> resultBuffer, fr |-> frame, timer |-> flushTimer, shut |-> shut,
     calls |-> flushCalls, logs |-> <<>>, kept |-> kept, dropped |-> dropped]

Commit(st) ==
    /\ resultBuffer' = st.rb
    /\ frame' = st.fr
    /\ flushTimer' = st.timer
    /\ shut' = st.shut
    /\ flushCalls' = st.calls
    /\ lastLogs' = st.logs
    /\ kept' = st.kept
    /\ dropped' = st.dropped
    /\ UNCHANGED syncerFile

SyncerInit ==
    /\ resultBuffer = <<>>
    /\ flushTimer = TRUE
    /\ frame = [c \in Callers |-> IdleFrame]
    /\ shut = "running"
    /\ saved = {}
    /\ accepted = <<>>
    /\ failures = 0
    /\ flushCalls = [k \in {"buf", "timer", "shutdown"} |-> 0]
    /\ lastLogs = <<>>
    /\ kept = {}
    /\ dropped = {}
    /\ atSignal = {}
    /\ syncerFile \in SyncerFiles

\* if (totalBuffered >= BUFFER_SIZE)
ThresholdExceeded(total) == total > BUFFER_SIZE
ThresholdReached(total) == total >= BUFFER_SIZE

\* processResult(job) -> bufferResult(result), up to the first await.
BufferResult(st, o) ==
    LET pushed == [st EXCEPT !.rb = Push(st.rb, o)]
        total == TotalBuffered(pushed.rb)
        logged == AddLog(pushed, Log(BufCaller, "Buffered result", o.sheetId, total))
    IN  IF ThresholdReached(total)
        THEN FlushBegin([AddLog(logged, Log(BufCaller, "Buffer size reached", "",
                                            BUFFER_SIZE))
                            EXCEPT !.timer = FALSE], BufCaller)
        ELSE logged

\* The results-queue worker (concurrency 1) hands the next job to
\* processResult; it takes no job while one is active or once it is closing.
WorkerFree == frame[BufCaller].pc = "idle"

Deliver(s, r, max) ==
    /\ shut \in {"running", "flushing"}
    /\ WorkerFree
    /\ Len(accepted) < max
    /\ LET o == [seq |-> Len(accepted) + 1, sheetId |-> s, rowIndex |-> r,
                 status |-> "Done"]
       IN  /\ accepted' = Append(accepted, o)
           /\ Commit(BufferResult(St, o))
    /\ UNCHANGED <<queueVars, workerVars, scrapeVars, engineVars, procVars>>
    /\ UNCHANGED <<saved, failures, atSignal>>

\* if (totalBuffered > 0)
AlwaysFlush(total) == TRUE
SomethingBuffered(total) == total > 0

\* The callback of scheduleFlush's setTimeout.
TimerCallback(st, c) ==
    LET fired == [st EXCEPT !.timer = FALSE]
        total == TotalBuffered(st.rb)
    IN  IF SomethingBuffered(total)
        THEN FlushBegin(AddLog(fired, Log(c, "Flush interval reached", "", total)), c)
        ELSE ScheduleFlush(fired)

TimerFire(c) ==
    /\ shut # "exited"
    /\ flushTimer
    /\ frame[c].pc = "idle"
    /\ \A d \in TimerCallers : frame[d].pc = "idle" => d.n >= c.n
    /\ TotalBuffered(resultBuffer) > 0 => flushCalls["timer"] < MaxTimerFlushes
    /\ Commit(TimerCallback(St, c))
    /\ UNCHANGED <<queueVars, workerVars, scrapeVars, engineVars, procVars>>
    /\ UNCHANGED <<saved, accepted, failures, atSignal>>

\* part_006, `for (const result of results)` from results[i] up to its next
\* `await row.save()`: a result whose row is not in the sheet is skipped, and
\* the iterator reads the array as it is now, results pushed since the flush
\* began included.  After the last result the count is logged and the entry
\* of the sheet is deleted.
RECURSIVE SaveLoop(_, _, _)
SaveLoop(st, c, i) ==
    LET results == Results(st, c) IN
    IF i > Len(results)
    THEN SheetFlushed(AddLog(st, Log(c, "Flushed results", st.fr[c].cur,
                                     st.fr[c].updated)), c)
    ELSE IF RowExists(st.fr[c].cur, results[i].rowIndex)
    THEN [st EXCEPT !.fr[c].pc = "save", !.fr[c].index = i,
                    !.fr[c].rowsToSave = <<results[i]>>]
    ELSE SaveLoop(st, c, i + 1)

\* loadSheet, loadHeaderRow and getRows resolved.  part_002: the rows are
\* updated in memory; with nothing to save the sheet's flush has succeeded at
\* once.  part_006: the loop over `results` starts.
RowsLoaded(st, c) ==
    LET rows == RowsToSave(st.fr[c].cur, Results(st, c)) IN
    IF ~RetryLoop
    THEN SaveLoop(st, c, 1)
    ELSE IF Len(rows) = 0
    THEN SheetFlushed(st, c)
    ELSE [AddLog(st, Log(c, "Saving rows", st.fr[c].cur, Len(rows)))
            EXCEPT !.fr[c].pc = "save", !.fr[c].rowsToSave = rows,
                   !.fr[c].updated = Len(rows)]

LoadOk(c) ==
    /\ shut # "exited"
    /\ frame[c].pc = "load"
    /\ Commit(RowsLoaded(St, c))
    /\ UNCHANGED <<queueVars, workerVars, scrapeVars, engineVars, procVars>>
    /\ UNCHANGED <<saved, accepted, failures, atSignal>>

\* One `await row.save()` resolved.  part_006: updated++, on to the next
\* result.
RowSaved(st, c) ==
    IF ~RetryLoop
    THEN SaveLoop([st EXCEPT !.fr[c].updated = @ + 1], c, st.fr[c].index + 1)
    ELSE IF Len(st.fr[c].rowsToSave) = 1
    THEN SheetFlushed(AddLog(st, Log(c, "Flushed results", st.fr[c].cur,
                                     st.fr[c].updated)), c)
    ELSE [st EXCEPT !.fr[c].rowsToSave = Tail(@)]

\* row['status'] = status || 'Done'
RowStatus(status) == IF status = "" THEN "Done" ELSE status
\* The status column (header `status`, the one getPendingRows reads) of a
\* row after its save, `cell` being its value before.  part_006 assigns
\* row['Email'] and row['Status']: no column has these names, so the save
\* writes the row back as it was read.
StatusCell(cell, status) == IF RetryLoop THEN RowStatus(status) ELSE cell

SaveOk(c) ==
    /\ shut # "exited"
    /\ frame[c].pc = "save"
    /\ LET o == Head(frame[c].rowsToSave) IN
       /\ saved' = saved \cup {o}
       /\ rowStatus' = [rowStatus EXCEPT ![<<frame[c].cur, o.rowIndex>>] =
                                               StatusCell(@, o.status)]
    /\ Commit(RowSaved(St, c))
    /\ UNCHANGED <<scrapeQueue, ingestor, api, apiResponse, queuePaused>>
    /\ UNCHANGED <<workerVars, scrapeVars, engineVars, procVars>>
    /\ UNCHANGED <<accepted, failures, atSignal>>

\* Exponential backoff: Math.pow(2, retries) * 1000
WaitTime(retries) == Pow2(retries) * BackoffBaseMs

Range(seq) == {seq[i] : i \in 1..Len(seq)}

\* part_002, catch (error) with a message containing '429' or
\* 'Quota exceeded'.
RateLimited(st, c) ==
    LET retries == st.fr[c].retries + 1
        waitTime == WaitTime(retries)
    IN  IF retries < maxRetries
        THEN [AddLog(st, Log(c, "Rate limit hit. Retry", st.fr[c].cur, waitTime))
                EXCEPT !.fr[c].pc = "backoff", !.fr[c].retries = retries,
                       !.fr[c].rowsToSave = <<>>, !.fr[c].updated = 0,
                       !.fr[c].waitTime = waitTime]
        ELSE NextSheet([AddLog(st, Log(c, "Rate limit retry exhausted", st.fr[c].cur,
                                       Len(Results(st, c))))
                          EXCEPT !.kept = @ \cup Range(Results(st, c))],
                       c, st.fr[c].rest)

\* The backoff setTimeout resolved: the while loop tries the sheet again.
BackoffDone(c) ==
    /\ shut # "exited"
    /\ frame[c].pc = "backoff"
    /\ Commit([St EXCEPT !.fr[c].pc = "load"])
    /\ UNCHANGED <<queueVars, workerVars, scrapeVars, engineVars, procVars>>
    /\ UNCHANGED <<saved, accepted, failures, atSignal>>

\* catch (error) with any other message, where the entry is not deleted.
OtherErrorKeep(st, c) ==
    NextSheet([AddLog(st, Log(c, "Failed to flush results", st.fr[c].cur,
                              Len(Results(st, c))))
                 EXCEPT !.dropped = @ \cup Range(Results(st, c))],
              c, st.fr[c].rest)

\* part_002, catch (error) with any other message: log, delete the entry,
\* break.  part_006, catch (error) with any message: log; the entry is
\* deleted after the try statement.
OtherError(st, c) ==
    NextSheet(DeleteEntry([AddLog(st, Log(c, "Failed to flush results", st.fr[c].cur,
                                          Len(Results(st, c))))
                             EXCEPT !.dropped = @ \cup Range(Results(st, c))],
                          st.fr[c].cur),
              c, st.fr[c].rest)

\* A sheet call rejects with a rate-limit error.
FailRateLimit(c) ==
    /\ shut # "exited"
    /\ frame[c].pc \in {"load", "save"}
    /\ failures < MaxFailures
    /\ failures' = failures + 1
    /\ Commit(IF RetryLoop THEN RateLimited(St, c) ELSE OtherError(St, c))
    /\ UNCHANGED <<queueVars, workerVars, scrapeVars, engineVars, procVars>>
    /\ UNCHANGED <<saved, accepted, atSignal>>

\* A sheet call rejects with another error.
FailOther(c) ==
    /\ shut # "exited"
    /\ frame[c].pc \in {"load", "save"}
    /\ failures < MaxFailures
    /\ failures' = failures + 1
    /\ Commit(OtherError(St, c))
    /\ UNCHANGED <<queueVars, workerVars, scrapeVars, engineVars, procVars>>
    /\ UNCHANGED <<saved, accepted, atSignal>>

\* The handler has been entered: a handler that already awaits
\* worker.close() stays where it is.
ShutAfterSignal(position) == IF position = "running" THEN "flushing" ELSE position

\* SIGTERM / SIGINT: shutdown() up to its first await.
Shutdown(st, c) ==
    FlushBegin([AddLog(st, Log(c, "Shutting down", "", 0))
                   EXCEPT !.timer = FALSE, !.shut = ShutAfterSignal(st.shut)], c)

\* process.on('SIGTERM', shutdown); process.on('SIGINT', shutdown): every
\* signal the process receives before it exits runs shutdown() again.
Signal(c) ==
    /\ shut # "exited"
    /\ frame[c].pc = "idle"
    /\ c.n = flushCalls["shutdown"]
    /\ Commit(Shutdown(St, c))
    /\ atSignal' = IF shut = "running"
                   THEN UNION {Range(resultBuffer[i].items) : i \in 1..Len(resultBuffer)}
                   ELSE atSignal
    /\ UNCHANGED <<queueVars, workerVars, scrapeVars, engineVars, procVars>>
    /\ UNCHANGED <<saved, accepted, failures>>

\* worker.close() resolved (it waits for the active job), process.exit(0).
Exit ==
    /\ shut = "closing"
    /\ WorkerFree
    /\ shut' = "exited"
    /\ lastLogs' = <<>>
    /\ UNCHANGED <<queueVars, workerVars, scrapeVars, engineVars, procVars>>
    /\ UNCHANGED <<resultBuffer, flushTimer, frame, saved, accepted, failures,
                   flushCalls, kept, dropped, atSignal, syncerFile>>

\* The steps of flushBuffer and of the handlers that need no sheet error.
SyncerSteps ==
    \/ \E c \in TimerCallers : TimerFire(c)
    \/ \E c \in Callers : LoadOk(c)
    \/ \E c \in Callers : SaveOk(c)
    \/ Exit

\* The sheet API answers every call.
SyncerNext ==
    \/ \E s \in Sheets, r \in RowIndexes : Deliver(s, r, MaxOutcomes)
    \/ SyncerSteps
    \/ \E c \in ShutCallers : Signal(c)

\* The sheet API may answer a call with a rate-limit error or another error;
\* the process receives one signal in these runs.
SyncerErrNext ==
    \/ \E s \in Sheets, r \in ErrRowIndexes : Deliver(s, r, MaxErrOutcomes)
    \/ SyncerSteps
    \/ Signal(ShutCaller)
    \/ \E c \in Callers : FailRateLimit(c)
    \/ \E c \in Callers : BackoffDone(c)
    \/ \E c \in Callers : FailOther(c)

----------------------------------------------------------------------------
\* The scrape queue (BullMQ 'scrape-queue') and its producers.

\* Bounds of the queue model
MaxUrls == 2              \* length of an explicit urls list in a request
\* WORKER_CONCURRENCY of the worker that consumes while the producers or the
\* ingestor process run
QueueWorkerConcurrency == 1
\* Sheets named in the requests to the API: the sheet the ingestor monitors,
\* so that both producers enqueue the same rows.
ApiSheets == {"s1"}

\* Program constants
BATCH_SIZE == 2           \* INGESTOR_BATCH_SIZE (default 100), set small here
RowIndexOffset == 2

\* In the queue specification the sheet the ingestor monitors has two data
\* rows (rows 2 and 3), the other sheet one; every data row has its url
\* filled in.
DataRows(s) == {i + RowIndexOffset : i \in 0..(RowCount(s) - 1)}
AllRows == {<<s, r>> : s \in Sheets, r \in RowIndexes \cup UNION {DataRows(t) : t \in Sheets}}

\* jobId: `${sheetId}-row-${rowIndex}`
JobIdAuto(sheetId, rowIndex) == <<sheetId, "-row-", rowIndex, Cardinality(scrapeQueue)>>
JobId(sheetId, rowIndex) == <<sheetId, "-row-", rowIndex>>

HasJob(q, id) == \E job \in q : job.id = id

\* Queue.add(name, data, { jobId }): a job whose id is already known to the
\* queue, in whatever state, is not added again; add resolves either way.
QueueAdd(q, id, data) ==
    IF HasJob(q, id)
    THEN q
    ELSE q \cup {[id |-> id, data |-> data, state |-> "waiting",
                   attemptsMade |-> 0, token |-> 0, delay |-> 0]}

\* A task the queue still has to run: waiting, being processed, or delayed
\* until the backoff of a failed attempt has elapsed.
Live(job) == job.state \in {"waiting", "active", "delayed"}

RECURSIVE SortedRows(_)
SortedRows(S) ==
    IF S = {} THEN <<>>
    ELSE LET r == CHOOSE x \in S : \A y \in S : x <= y
         IN  <<r>> \o SortedRows(S \ {r})

Take(seq, n) == IF Len(seq) <= n THEN seq ELSE SubSeq(seq, 1, n)

\* The url of a row: the page of row 2 shows an email on the sheet the
\* ingestor monitors and none on the other sheet, the page of row 3 cannot be
\* navigated to.  The urls list of a request names the same pages.
SheetUrl(s, rowIndex) ==
    IF rowIndex = 3 THEN "u-bad" ELSE IF s = IngestorSheet THEN "u-email" ELSE "u-none"

\* getPendingRows(sheetId, limit): the rows with a url and an empty status,
\* in sheet order, at most `limit` of them.
GetPendingRows(s, limit) ==
    LET pending == SortedRows({r \in DataRows(s) : rowStatus[<<s, r>>] = ""})
    IN  Take([i \in 1..Len(pending) |->
                [url |-> SheetUrl(s, pending[i]), rowIndex |-> pending[i]]], limit)

IdleProducer == [pc |-> "idle", sheetId |-> "", items |-> <<>>, added |-> 0]

\* No response sent yet. `enqueued` counts the tasks the request has put
\* into the queue; jobsAdded is the field of that name of the response.
NoResponse == [sent |-> FALSE, jobsAdded |-> 0, enqueued |-> 0]

\* res.json({ sheetId, jobsAdded: jobs.length, ... })
Response(pushed, enqueued) ==
    [sent |-> TRUE, jobsAdded |-> pushed, enqueued |-> enqueued]

QueueInit ==
    /\ scrapeQueue = {}
    /\ ingestor = IdleProducer
    /\ api = IdleProducer
    /\ apiResponse = NoResponse
    /\ rowStatus = [x \in AllRows |-> ""]
    /\ queuePaused = FALSE

\* pollAndIngest(sheetId) up to the first scrapeQueue.add (or its return 0).
IngestPoll ==
    /\ ingestor.pc = "idle"
    /\ LET pendingRows == GetPendingRows(IngestorSheet, BATCH_SIZE) IN
       ingestor' = IF Len(pendingRows) = 0
                   THEN IdleProducer
                   ELSE [pc |-> "adding", sheetId |-> IngestorSheet,
                         items |-> pendingRows, added |-> 0]
    /\ UNCHANGED <<syncerVars, workerVars, scrapeVars, engineVars, procVars>>
    /\ UNCHANGED <<scrapeQueue, api, apiResponse, queuePaused, rowStatus>>

\* One iteration of the pollAndIngest loop: await scrapeQueue.add; added++.
\* After the last row the function returns `added`.
IngestAdd ==
    /\ ingestor.pc = "adding"
    /\ LET row == Head(ingestor.items) IN
       scrapeQueue' = QueueAdd(scrapeQueue, JobId(ingestor.sheetId, row.rowIndex),
                               [url |-> row.url, rowIndex |-> row.rowIndex,
                                sheetId |-> ingestor.sheetId])
    /\ ingestor' = IF Len(ingestor.items) = 1
                   THEN IdleProducer
                   ELSE [ingestor EXCEPT !.items = Tail(@), !.added = @ + 1]
    /\ UNCHANGED <<syncerVars, workerVars, scrapeVars, engineVars, procVars>>
    /\ UNCHANGED <<api, apiResponse, queuePaused, rowStatus>>

\* urls.map((url, index) => ({ url, rowIndex: index + 2 }))
UrlsToQueue(s, n) ==
    [i \in 1..n |-> [url |-> SheetUrl(s, (i - 1) + RowIndexOffset),
                     rowIndex |-> (i - 1) + RowIndexOffset]]

\* POST /api/start-queue with an explicit urls list of n entries.
ApiStartUrls(s, n) ==
    /\ api.pc = "idle"
    /\ api' = [pc |-> "adding", sheetId |-> s, items |-> UrlsToQueue(s, n), added |-> 0]
    /\ apiResponse' = NoResponse
    /\ UNCHANGED <<syncerVars, workerVars, scrapeVars, engineVars, procVars>>
    /\ UNCHANGED <<scrapeQueue, ingestor, rowStatus, queuePaused>>

\* POST /api/start-queue without urls: read the sheet, at most batchSize rows;
\* with no pending row the response is sent at once with jobsAdded: 0.
ApiStartSheet(s, limit) ==
    /\ api.pc = "idle"
    /\ LET pendingRows == GetPendingRows(s, limit) IN
       /\ api' = IF Len(pendingRows) = 0
                 THEN IdleProducer
                 ELSE [pc |-> "adding", sheetId |-> s, items |-> pendingRows,
                       added |-> 0]
       /\ apiResponse' = IF Len(pendingRows) = 0
                         THEN Response(0, 0)
                         ELSE NoResponse
    /\ UNCHANGED <<syncerVars, workerVars, scrapeVars, engineVars, procVars>>
    /\ UNCHANGED <<scrapeQueue, ingestor, rowStatus, queuePaused>>

\* One iteration of the loop over urlsToQueue: await scrapeQueue.add;
\* jobs.push(...). After the last item the response carries jobs.length.
ApiAdd ==
    /\ api.pc = "adding"
    /\ LET item == Head(api.items)
           id == JobId(api.sheetId, item.rowIndex)
           enqueued == apiResponse.enqueued + (IF HasJob(scrapeQueue, id) THEN 0 ELSE 1)
       IN  /\ scrapeQueue' = QueueAdd(scrapeQueue, id,
                                      [url |-> item.url, rowIndex |-> item.rowIndex,
                                       sheetId |-> api.sheetId])
           /\ apiResponse' = IF Len(api.items) = 1
                             THEN Response(api.added + 1, enqueued)
                             ELSE [apiResponse EXCEPT !.enqueued = enqueued]
    /\ api' = IF Len(api.items) = 1
              THEN IdleProducer
              ELSE [api EXCEPT !.items = Tail(@), !.added = @ + 1]
    /\ UNCHANGED <<syncerVars, workerVars, scrapeVars, engineVars, procVars>>
    /\ UNCHANGED <<ingestor, rowStatus, queuePaused>>

SetJob(q, job, new) == (q \ {job}) \cup {new}

Finished(job) == job.state \in {"completed", "failed"}

\* The retention of the job options (removeOnComplete, removeOnFail) removes
\* a completed or a failed job from the queue.
RemoveFinished(job) ==
    /\ Finished(job)
    /\ scrapeQueue' = scrapeQueue \ {job}
    /\ UNCHANGED <<syncerVars, workerVars, scrapeVars, engineVars, procVars>>
    /\ UNCHANGED <<ingestor, api, apiResponse, queuePaused, rowStatus>>

\* POST /api/queue/clean: scrapeQueue.clean(grace, 0, 'completed') and
\* scrapeQueue.clean(grace, 0, 'failed') remove the completed and the failed
\* jobs that finished more than `grace` ms ago, here the jobs of `old`.
QueueClean(old) ==
    /\ old # {}
    /\ \A job \in old : Finished(job)
    /\ scrapeQueue' = scrapeQueue \ old
    /\ UNCHANGED <<syncerVars, workerVars, scrapeVars, engineVars, procVars>>
    /\ UNCHANGED <<ingestor, api, apiResponse, rowStatus, queuePaused>>

\* POST /api/queue/pause: scrapeQueue.pause(); running jobs complete, no new
\* job starts.
QueuePause ==
    /\ ~queuePaused
    /\ queuePaused' = TRUE
    /\ UNCHANGED <<syncerVars, workerVars, scrapeVars, engineVars, procVars>>
    /\ UNCHANGED <<scrapeQueue, ingestor, api, apiResponse, rowStatus>>

\* POST /api/queue/resume: scrapeQueue.resume().
QueueResume ==
    /\ queuePaused
    /\ queuePaused' = FALSE
    /\ UNCHANGED <<syncerVars, workerVars, scrapeVars, engineVars, procVars>>
    /\ UNCHANGED <<scrapeQueue, ingestor, api, apiResponse, rowStatus>>

\* POST /api/queue/drain: scrapeQueue.drain() removes the waiting jobs.
QueueDrain ==
    /\ \E job \in scrapeQueue : job.state = "waiting"
    /\ scrapeQueue' = {job \in scrapeQueue : job.state # "waiting"}
    /\ UNCHANGED <<syncerVars, workerVars, scrapeVars, engineVars, procVars>>
    /\ UNCHANGED <<ingestor, api, apiResponse, queuePaused, rowStatus>>

\* POST /api/queue/obliterate with confirm 'YES_DELETE_ALL':
\* scrapeQueue.obliterate() resolved, 'ALL jobs removed from queue', whatever
\* their state (a call that rejects changes nothing).
QueueObliterate ==
    /\ scrapeQueue # {}
    /\ scrapeQueue' = {}
    /\ UNCHANGED <<syncerVars, workerVars, scrapeVars, engineVars, procVars>>
    /\ UNCHANGED <<ingestor, api, apiResponse, queuePaused, rowStatus>>

----------------------------------------------------------------------------
\* scrapeUrl and processJob of the scrape worker (services/worker/worker.js)

\* Bounds of the worker model
MaxScripts == 2           \* script[type="application/json"] tags of a page
MaxInfraErrors == 3       \* handler exceptions and stalls the environment may cause

\* Program constants
WORKER_CONCURRENCY == 2   \* WORKER_CONCURRENCY (default 3), set small here
Attempts == 3             \* defaultJobOptions.attempts of scrape-queue
BackoffDelayMs == 2000    \* defaultJobOptions.backoff.delay of scrape-queue

\* let email = null
NoEmail == "<null>"
Emails == {"a@x.io", "b@y.io"}
\* What script.textContent() gives for one script tag: nothing, text that is
\* not JSON, JSON without an email, JSON holding an email; or it rejects.
ScriptKinds == {"", "notjson", "json", "throws"} \cup Emails

\* dataStr.match(/([a-zA-Z0-9._-]+@...)/): the email in the text, if any.
EmailMatch(content) == IF content \in Emails THEN content ELSE NoEmail

\* for (const script of scriptTags): the first email found, or the exception
\* of a textContent() call made before one was found.
RECURSIVE ScanScripts(_)
ScanScripts(scripts) ==
    IF scripts = <<>>
    THEN [email |-> NoEmail, threw |-> FALSE]
    ELSE LET content == Head(scripts) IN
         IF content = "throws" THEN [email |-> NoEmail, threw |-> TRUE]
         ELSE IF content = "" \/ content = "notjson" THEN ScanScripts(Tail(scripts))
         ELSE IF EmailMatch(content) # NoEmail
              THEN [email |-> EmailMatch(content), threw |-> FALSE]
              ELSE ScanScripts(Tail(scripts))

\* let status = 'Done'; ... if (!email) status = 'Not found'
StatusAlwaysDone(email) == "Done"
StatusAfterScan(email) == IF email = NoEmail THEN "Not found" ELSE "Done"

\* scrapeUrl(url): initBrowser / newContext are outside the try block, so
\* their exception leaves scrapeUrl; an exception of page.goto or of the
\* extraction is caught and gives status 'Failed'.
ScrapeUrl(in) ==
    IF in.ctx = "throws"
    THEN [threw |-> TRUE, email |-> NoEmail, status |-> ""]
    ELSE IF in.nav = "throws"
         THEN [threw |-> FALSE, email |-> NoEmail, status |-> "Failed"]
         ELSE LET r == ScanScripts(in.scripts) IN
              IF r.threw
              THEN [threw |-> FALSE, email |-> r.email, status |-> "Failed"]
              ELSE [threw |-> FALSE, email |-> r.email,
                    status |-> StatusAfterScan(r.email)]

\* email: email || 'Not found'
OutcomeEmailRaw(email) == email
OutcomeEmail(email) == IF email = NoEmail THEN "Not found" ELSE email

\* The result object processJob builds (scrapedAt left out).
Outcome(data, r) ==
    [rowIndex |-> data.rowIndex, sheetId |-> data.sheetId, url |-> data.url,
     email |-> OutcomeEmail(r.email), status |-> r.status]

\* jobId: `result-${sheetId}-row-${rowIndex}`
ResultJobId(sheetId, rowIndex) == <<"result-", sheetId, "-row-", rowIndex>>

\* ---- scrapeUrl applied to one page ----
RECURSIVE SeqsUpTo(_, _)
SeqsUpTo(S, n) ==
    IF n = 0 THEN {<<>>}
    ELSE LET shorter == SeqsUpTo(S, n - 1) IN
         shorter \cup {Append(q, x) : q \in shorter, x \in S}

ScrapeInputs ==
    [ctx : {"ok", "throws"}, nav : {"ok", "throws"},
     scripts : SeqsUpTo(ScriptKinds, MaxScripts)]

NotCalled == [called |-> FALSE, threw |-> FALSE, email |-> "", status |-> ""]

ScrapeInit ==
    /\ scrapeIn \in ScrapeInputs
    /\ scrapeOut = NotCalled

\* const { email, status } = await scrapeUrl(url); const result = {...}
ScrapeCall ==
    /\ ~scrapeOut.called
    /\ LET r == ScrapeUrl(scrapeIn) IN
       scrapeOut' = IF r.threw
                    THEN [called |-> TRUE, threw |-> TRUE, email |-> "", status |-> ""]
                    ELSE [called |-> TRUE, threw |-> FALSE,
                          email |-> OutcomeEmail(r.email), status |-> r.status]
    /\ UNCHANGED <<scrapeIn, syncerVars, queueVars, workerVars, engineVars, procVars>>

ScrapeIdle ==
    /\ scrapeIn = [ctx |-> "ok", nav |-> "ok", scripts |-> <<>>]
    /\ scrapeOut = NotCalled

\* ---- the worker on scrape-queue ----
WorkerSheet == "s1"
WorkerRows == {2, 3}
\* Pages behind the urls of the tasks: one shows an email, one shows none,
\* one cannot be navigated to.
WorkerUrls == {"u-email", "u-none", "u-bad"}
UrlPage(url) ==
    IF url = "u-email" THEN [nav |-> "ok", scripts |-> <<"json", "a@x.io">>]
    ELSE IF url = "u-none" THEN [nav |-> "ok", scripts |-> <<"notjson", "json">>]
    ELSE [nav |-> "throws", scripts |-> <<>>]

NoResult == [threw |-> FALSE, email |-> NoEmail, status |-> ""]

JobOf(q, run) == CHOOSE job \in q : job.id = run.id
\* The run still holds the lock of its job.
HoldsLock(q, run) ==
    HasJob(q, run.id) /\ JobOf(q, run).state = "active" /\ JobOf(q, run).token = run.token

\* Backoff of the retry after the n-th failed attempt: delay * 2^(n-1).
RetryDelay(attemptsMade) == BackoffDelayMs * Pow2(attemptsMade - 1)

\* processJob threw: the queue retries the job after a backoff while attempts
\* are left, else the job is failed. A run that lost its lock changes nothing.
AttemptFailed(q, run) ==
    IF HoldsLock(q, run)
    THEN LET job == JobOf(q, run)
             made == job.attemptsMade + 1
         IN  SetJob(q, job,
                    IF made < Attempts
                    THEN [job EXCEPT !.attemptsMade = made, !.state = "delayed",
                                     !.delay = RetryDelay(made)]
                    ELSE [job EXCEPT !.attemptsMade = made, !.state = "failed"])
    ELSE q

\* processJob returned: the job is completed (if the run holds its lock).
AttemptDone(q, run) ==
    IF HoldsLock(q, run)
    THEN SetJob(q, JobOf(q, run), [JobOf(q, run) EXCEPT !.state = "completed"])
    ELSE q

WorkerInit ==
    /\ runs = {}
    /\ resultsQueue = {}
    /\ outcomes = <<>>
    /\ infraErrors = 0

\* A producer enqueues the task of a row (see IngestAdd, ApiAdd).
WEnqueue(r, url) ==
    /\ scrapeQueue' = QueueAdd(scrapeQueue, JobId(WorkerSheet, r),
                               [url |-> url, rowIndex |-> r, sheetId |-> WorkerSheet])
    /\ UNCHANGED <<ingestor, api, apiResponse, queuePaused, rowStatus>>
    /\ UNCHANGED <<workerVars, syncerVars, scrapeVars, engineVars, procVars>>

\* The lock token of a delivery: one that no processJob call still running
\* for that job id holds.
NextToken(job) ==
    LET used == {run.token : run \in {x \in runs : x.id = job.id}}
    IN  CHOOSE t \in 1..(Cardinality(used) + 1) : t \notin used /\ \A u \in 1..(t - 1) : u \in used

\* The worker takes a waiting job and calls processJob(job); it runs at most
\* `concurrency` (WORKER_CONCURRENCY) processJob calls at a time.
WTake(job, concurrency) ==
    /\ job.state = "waiting"
    /\ ~queuePaused
    /\ Cardinality(runs) < concurrency
    /\ scrapeQueue' = SetJob(scrapeQueue, job,
                             [job EXCEPT !.state = "active", !.token = NextToken(job)])
    /\ runs' = runs \cup {[id |-> job.id, token |-> NextToken(job), pc |-> "scrape",
                           data |-> job.data, result |-> NoResult]}
    /\ UNCHANGED <<ingestor, api, apiResponse, queuePaused, rowStatus, resultsQueue, outcomes, infraErrors>>
    /\ UNCHANGED <<syncerVars, scrapeVars, engineVars, procVars>>

\* `await scrapeUrl(url)` settled, the browser context being as ctx says.
ScrapeSettled(run, ctx) ==
    LET page == UrlPage(run.data.url)
        r == ScrapeUrl([ctx |-> ctx, nav |-> page.nav, scripts |-> page.scripts])
    IN  IF r.threw
        THEN /\ runs' = runs \ {run}
             /\ scrapeQueue' = AttemptFailed(scrapeQueue, run)
        ELSE /\ runs' = (runs \ {run}) \cup {[run EXCEPT !.pc = "push", !.result = r]}
             /\ scrapeQueue' = scrapeQueue

WScraped(run) ==
    /\ run.pc = "scrape"
    /\ ScrapeSettled(run, "ok")
    /\ UNCHANGED <<ingestor, api, apiResponse, queuePaused, rowStatus, resultsQueue, outcomes, infraErrors>>
    /\ UNCHANGED <<syncerVars, scrapeVars, engineVars, procVars>>

\* initBrowser() or browser.newContext() rejected.
WScrapeThrows(run) ==
    /\ run.pc = "scrape"
    /\ infraErrors < MaxInfraErrors
    /\ infraErrors' = infraErrors + 1
    /\ ScrapeSettled(run, "throws")
    /\ UNCHANGED <<ingestor, api, apiResponse, queuePaused, rowStatus, resultsQueue, outcomes>>
    /\ UNCHANGED <<syncerVars, scrapeVars, engineVars, procVars>>

\* await resultsQueue.add('write-result', result, { jobId }): the result job
\* is in results-queue once the add has executed.
WPush(run) ==
    /\ run.pc = "push"
    /\ LET outcome == Outcome(run.data, run.result)
           id == ResultJobId(run.data.sheetId, run.data.rowIndex)
       IN  IF HasJob(resultsQueue, id)
           THEN UNCHANGED <<resultsQueue, outcomes>>
           ELSE /\ resultsQueue' = resultsQueue \cup
                        {[id |-> id, data |-> outcome, state |-> "waiting"]}
                /\ outcomes' = Append(outcomes, outcome)
    /\ runs' = (runs \ {run}) \cup {[run EXCEPT !.pc = "return"]}
    /\ UNCHANGED <<scrapeQueue, ingestor, api, apiResponse, queuePaused, rowStatus, infraErrors>>
    /\ UNCHANGED <<syncerVars, scrapeVars, engineVars, procVars>>

\* processJob resumes after the add and returns its result: the library
\* moves the job to completed.
WReturn(run) ==
    /\ run.pc = "return"
    /\ runs' = runs \ {run}
    /\ scrapeQueue' = AttemptDone(scrapeQueue, run)
    /\ UNCHANGED <<ingestor, api, apiResponse, queuePaused, rowStatus, resultsQueue, outcomes, infraErrors>>
    /\ UNCHANGED <<syncerVars, scrapeVars, engineVars, procVars>>

\* resultsQueue.add rejected (Redis error): processJob throws.
WPushThrows(run) ==
    /\ run.pc = "push"
    /\ infraErrors < MaxInfraErrors
    /\ infraErrors' = infraErrors + 1
    /\ runs' = runs \ {run}
    /\ scrapeQueue' = AttemptFailed(scrapeQueue, run)
    /\ UNCHANGED <<ingestor, api, apiResponse, queuePaused, rowStatus, resultsQueue, outcomes>>
    /\ UNCHANGED <<syncerVars, scrapeVars, engineVars, procVars>>

\* The backoff delay of a retried job has elapsed.
WBackoffElapsed(job) ==
    /\ job.state = "delayed"
    /\ scrapeQueue' = SetJob(scrapeQueue, job, [job EXCEPT !.state = "waiting"])
    /\ UNCHANGED <<ingestor, api, apiResponse, queuePaused, rowStatus, workerVars>>
    /\ UNCHANGED <<syncerVars, scrapeVars, engineVars, procVars>>

\* The lock of an active job expired (stalled job): the queue moves it back
\* to waiting, to be delivered again, while its processJob call goes on.
WStalled(job) ==
    /\ job.state = "active"
    /\ infraErrors < MaxInfraErrors
    /\ infraErrors' = infraErrors + 1
    /\ scrapeQueue' = SetJob(scrapeQueue, job, [job EXCEPT !.state = "waiting"])
    /\ UNCHANGED <<ingestor, api, apiResponse, queuePaused, rowStatus, runs, resultsQueue, outcomes>>
    /\ UNCHANGED <<syncerVars, scrapeVars, engineVars, procVars>>

\* The results-queue worker of the syncer (concurrency 1) takes a waiting
\* result job: processResult(job) calls bufferResult(job.data).
ResultTaken(rj, max) ==
    /\ rj.state = "waiting"
    /\ shut \in {"running", "flushing"}
    /\ WorkerFree
    /\ \A other \in resultsQueue : other.state # "active"
    /\ Len(accepted) < max
    /\ resultsQueue' = SetJob(resultsQueue, rj, [rj EXCEPT !.state = "active"])
    /\ LET o == [seq |-> Len(accepted) + 1, sheetId |-> rj.data.sheetId,
                 rowIndex |-> rj.data.rowIndex, status |-> rj.data.status]
       IN  /\ accepted' = Append(accepted, o)
           /\ Commit(BufferResult(St, o))
    /\ UNCHANGED <<scrapeQueue, ingestor, api, apiResponse, queuePaused, rowStatus>>
    /\ UNCHANGED <<runs, outcomes, infraErrors>>
    /\ UNCHANGED <<saved, failures, atSignal>>
    /\ UNCHANGED <<scrapeVars, engineVars, procVars>>

\* `await bufferResult(result)` resolved and processResult returned
\* { buffered: true }: the result job is completed.
ResultDone(rj) ==
    /\ rj.state = "active"
    /\ WorkerFree
    /\ resultsQueue' = SetJob(resultsQueue, rj, [rj EXCEPT !.state = "completed"])
    /\ UNCHANGED <<scrapeQueue, ingestor, api, apiResponse, queuePaused, rowStatus>>
    /\ UNCHANGED <<runs, outcomes, infraErrors>>
    /\ UNCHANGED <<syncerVars, scrapeVars, engineVars, procVars>>

\* removeOnComplete of results-queue removes a completed result job.
ResultRemoved(rj) ==
    /\ rj.state = "completed"
    /\ resultsQueue' = resultsQueue \ {rj}
    /\ UNCHANGED <<scrapeQueue, ingestor, api, apiResponse, queuePaused, rowStatus, runs, outcomes, infraErrors>>
    /\ UNCHANGED <<syncerVars, scrapeVars, engineVars, procVars>>

\* The steps of the worker and of the syncer behind it that need no error.
WorkerSteps(max) ==
    \/ \E job \in scrapeQueue : WTake(job, WORKER_CONCURRENCY)
    \/ \E run \in runs : WScraped(run)
    \/ \E run \in runs : WPush(run)
    \/ \E run \in runs : WReturn(run)
    \/ \E rj \in resultsQueue : ResultTaken(rj, max)
    \/ \E rj \in resultsQueue : ResultDone(rj)
    \/ \E rj \in resultsQueue : ResultRemoved(rj)
    \/ \E c \in TimerCallers : TimerFire(c)
    \/ \E c \in Callers : LoadOk(c)
    \/ \E c \in Callers : SaveOk(c)

\* The browser and Redis answer every call and no job stalls.
WorkerNext ==
    \/ \E r \in WorkerRows, url \in WorkerUrls : WEnqueue(r, url)
    \/ WorkerSteps(MaxOutcomes)

\* The browser or Redis may reject a call and a job may stall; the tasks of
\* these runs are for one row.
WorkerErrNext ==
    \/ \E r \in ErrRowIndexes, url \in WorkerUrls : WEnqueue(r, url)
    \/ WorkerSteps(MaxErrOutcomes)
    \/ \E run \in runs : WScrapeThrows(run)
    \/ \E run \in runs : WPushThrows(run)
    \/ \E job \in scrapeQueue : WBackoffElapsed(job)
    \/ \E job \in scrapeQueue : WStalled(job)

\* The browser or Redis may reject a call; no job stalls, and finished tasks
\* are removed by the retention of the queue or by POST /api/queue/clean, so
\* that the row of a failed task can be enqueued again.
WorkerRetryNext ==
    \/ \E r \in ErrRowIndexes, url \in WorkerUrls : WEnqueue(r, url)
    \/ WorkerSteps(MaxErrOutcomes)
    \/ \E run \in runs : WScrapeThrows(run)
    \/ \E run \in runs : WPushThrows(run)
    \/ \E job \in scrapeQueue : WBackoffElapsed(job)
    \/ \E job \in scrapeQueue : RemoveFinished(job)
    \/ \E old \in SUBSET scrapeQueue : QueueClean(old)

\* The tasks of two rows in progress at once while browser.newContext() (or
\* initBrowser()) may reject for a task, each time it is attempted.
WorkerBatchNext ==
    \/ \E r \in WorkerRows, url \in WorkerUrls : WEnqueue(r, url)
    \/ WorkerSteps(MaxOutcomes)
    \/ \E run \in runs : WScrapeThrows(run)
    \/ \E job \in scrapeQueue : WBackoffElapsed(job)

WorkerIdle == WorkerInit

\* The scrape worker and the syncer at work on the jobs of the queue, and the
\* queue maintenance of the API.
ConsumerNext(max, concurrency) ==
    \/ \E job \in scrapeQueue : WTake(job, concurrency)
    \/ \E run \in runs : WScraped(run)
    \/ \E run \in runs : WPush(run)
    \/ \E run \in runs : WReturn(run)
    \/ \E rj \in resultsQueue : ResultTaken(rj, max)
    \/ \E rj \in resultsQueue : ResultDone(rj)
    \/ \E rj \in resultsQueue : ResultRemoved(rj)
    \/ \E c \in TimerCallers : TimerFire(c)
    \/ \E c \in Callers : LoadOk(c)
    \/ \E c \in Callers : SaveOk(c)
    \/ \E job \in scrapeQueue : RemoveFinished(job)
    \/ \E old \in SUBSET scrapeQueue : QueueClean(old)
    \/ QueueDrain
    \/ QueueObliterate

\* The producers of scrape-queue with the worker and the syncer consuming.
QueueNext ==
    \/ IngestPoll
    \/ IngestAdd
    \/ \E s \in ApiSheets, n \in 1..MaxUrls : ApiStartUrls(s, n)
    \/ \E s \in ApiSheets, limit \in 1..BATCH_SIZE : ApiStartSheet(s, limit)
    \/ ApiAdd
    \/ QueuePause
    \/ QueueResume
    \/ ConsumerNext(MaxQueueOutcomes, QueueWorkerConcurrency)

\* The producers of scrape-queue with a worker whose browser or Redis may
\* reject a call: a failed attempt is delayed and retried, a task that used
\* up its attempts is failed, a job may stall, and finished tasks are removed.
\* The syncer does not consume here (the result jobs wait in results-queue),
\* so every row stays pending and is read again by every poll.
QueueErrNext ==
    \/ IngestPoll
    \/ IngestAdd
    \/ \E s \in ApiSheets, n \in 1..MaxUrls : ApiStartUrls(s, n)
    \/ \E s \in ApiSheets, limit \in 1..BATCH_SIZE : ApiStartSheet(s, limit)
    \/ ApiAdd
    \/ QueuePause
    \/ QueueResume
    \/ \E job \in scrapeQueue : WTake(job, QueueWorkerConcurrency)
    \/ \E run \in runs : WScraped(run)
    \/ \E run \in runs : WPush(run)
    \/ \E run \in runs : WReturn(run)
    \/ \E run \in runs : WScrapeThrows(run)
    \/ \E run \in runs : WPushThrows(run)
    \/ \E job \in scrapeQueue : WBackoffElapsed(job)
    \/ \E job \in scrapeQueue : WStalled(job)
    \/ \E job \in scrapeQueue : RemoveFinished(job)
    \/ \E old \in SUBSET scrapeQueue : QueueClean(old)
    \/ QueueDrain
    \/ QueueObliterate

----------------------------------------------------------------------------
\* ScraperEngine cookie sessions (scraper.js)

\* Bounds of the engine model
MaxSessions == 3          \* entries of FACEBOOK_COOKIES
MaxRotateCalls == 30      \* rotateCookie() calls

SessionLists == {[i \in 1..n |-> i] : n \in 0..MaxSessions}

\* constructor() and loadCookies()
EngineInit ==
    /\ cookieSessions \in SessionLists
    /\ currentSessionIndex = 0
    /\ rotateReturned = "none"
    /\ rotateCalls = 0

\* if (this.cookieSessions.length <= 1)
AnySession(n) == n < 1
SingleOrNone(n) == n <= 1

RotateCookie ==
    /\ rotateCalls < MaxRotateCalls
    /\ rotateCalls' = rotateCalls + 1
    /\ IF SingleOrNone(Len(cookieSessions))
       THEN /\ rotateReturned' = "false"
            /\ UNCHANGED currentSessionIndex
       ELSE /\ currentSessionIndex' = (currentSessionIndex + 1) % Len(cookieSessions)
            /\ rotateReturned' = "true"
    /\ UNCHANGED <<cookieSessions, syncerVars, queueVars, workerVars, scrapeVars, procVars>>

EngineIdle ==
    /\ cookieSessions = <<>>
    /\ currentSessionIndex = 0
    /\ rotateReturned = "none"
    /\ rotateCalls = 0

----------------------------------------------------------------------------
\* ScraperParallel cookie sessions (core/scraper_parallel.js)

\* A JavaScript value returned by rotateCookie().
NumberValue(i) == [type |-> "number", value |-> i]
NotReturned == [type |-> "undefined", value |-> 0]

\* constructor(): currentSessionIndex = 0; loadCookies() reads the same
\* FACEBOOK_COOKIES as ScraperEngine.
ParallelInit ==
    /\ parallelIndex = 0
    /\ parallelReturned = NotReturned

\* ScraperParallel.rotateCookie() as a function of the session count and the
\* cursor: it returns the cursor, not a boolean.
ParallelRotateStuck(n, index) == [ret |-> NumberValue(index), index |-> index]
ParallelRotate(n, index) ==
    IF n <= 1
    THEN [ret |-> NumberValue(index), index |-> index]
    ELSE [ret |-> NumberValue((index + 1) % n), index |-> (index + 1) % n]

ParallelRotateCookie ==
    /\ rotateCalls < MaxRotateCalls
    /\ rotateCalls' = rotateCalls + 1
    /\ LET r == ParallelRotate(Len(cookieSessions), parallelIndex)
       IN  /\ parallelIndex' = r.index
           /\ parallelReturned' = r.ret
    /\ UNCHANGED <<cookieSessions, currentSessionIndex, rotateReturned,
                   cookieEnv, engineCookie, handed>>
    /\ UNCHANGED <<syncerVars, queueVars, workerVars, scrapeVars,
                   ingestVars, poolVars, pollVars, jobVars, startVars>>

ParallelIdle == ParallelInit

----------------------------------------------------------------------------
\* Cookie injection: processUrl (scraper.js) and scrapeUrl (worker.js)

\* Bounds of the injection model
MaxValueLen == 5          \* characters of a cookie value
MaxInjects == 3           \* context.addCookies calls

\* A JavaScript string is a sequence of one-character strings.
LowerLetters ==
    <<"a", "b", "c", "d", "e", "f", "g", "h", "i", "j", "k", "l", "m",
      "n", "o", "p", "q", "r", "s", "t", "u", "v", "w", "x", "y", "z">>
UpperLetters ==
    <<"A", "B", "C", "D", "E", "F", "G", "H", "I", "J", "K", "L", "M",
      "N", "O", "P", "Q", "R", "S", "T", "U", "V", "W", "X", "Y", "Z">>
LetterCount == 26

\* String.prototype.toUpperCase / toLowerCase
ToUpperCase(str) ==
    [i \in 1..Len(str) |->
        IF \E k \in 1..LetterCount : LowerLetters[k] = str[i]
        THEN UpperLetters[CHOOSE k \in 1..LetterCount : LowerLetters[k] = str[i]]
        ELSE str[i]]
ToLowerCase(str) ==
    [i \in 1..Len(str) |->
        IF \E k \in 1..LetterCount : UpperLetters[k] = str[i]
        THEN LowerLetters[CHOOSE k \in 1..LetterCount : UpperLetters[k] = str[i]]
        ELSE str[i]]

\* sameSite.charAt(0).toUpperCase() + sameSite.slice(1).toLowerCase()
Capitalize(str) ==
    IF str = <<>> THEN <<>>
    ELSE ToUpperCase(<<Head(str)>>) \o ToLowerCase(Tail(str))

NoRestriction == <<"n", "o", "_", "r", "e", "s", "t", "r", "i", "c", "t", "i", "o", "n">>
Unspecified == <<"u", "n", "s", "p", "e", "c", "i", "f", "i", "e", "d">>
StrictStr == <<"S", "t", "r", "i", "c", "t">>
LaxStr == <<"L", "a", "x">>
NoneStr == <<"N", "o", "n", "e">>
Accepted == {StrictStr, LaxStr, NoneStr}

\* sameSite values of a configured cookie ("" included)
SameSiteInputs ==
    {NoRestriction, Unspecified, StrictStr, LaxStr, NoneStr,
     <<"l", "a", "x">>, <<"s", "t", "r", "i", "c", "t">>, <<"n", "o", "n", "e">>,
     <<"L", "A", "X">>, <<"f", "o", "o">>, <<>>}

\* processUrl: the sameSite assignments of the cookie map.
EngineSameSite(sameSite) ==
    LET renamed == IF sameSite = NoRestriction THEN NoneStr
                   ELSE IF sameSite = Unspecified THEN LaxStr
                   ELSE sameSite
    IN  IF renamed # <<>> THEN Capitalize(renamed) ELSE renamed

\* scrapeUrl: the sameSite assignments of the sanitising map.
WorkerSameSite(sameSite) ==
    LET first == IF sameSite = NoRestriction THEN NoneStr ELSE sameSite
    IN  IF first = Unspecified THEN LaxStr ELSE first

\* ScraperParallel.processUrl: a sameSite that is set and is not one of the
\* three accepted values becomes 'Lax'.
ParallelSameSite(sameSite) ==
    IF sameSite # <<>> /\ sameSite \notin Accepted THEN LaxStr ELSE sameSite

\* Characters of the cookie values, and the escapes of two of them that
\* decodeURIComponent accepts.
ValueChars == {"%", "2", "5"}
Escapes == {<<"2", "5">>, <<"2", "2">>, <<"5", "2">>, <<"5", "5">>}
Unescaped(pair) ==
    IF pair = <<"2", "5">> THEN "%"
    ELSE IF pair = <<"2", "2">> THEN "\""
    ELSE IF pair = <<"5", "2">> THEN "R"
    ELSE "U"

RECURSIVE ValuesOfLen(_)
ValuesOfLen(n) ==
    IF n = 0 THEN {<<>>}
    ELSE {<<c>> \o v : c \in ValueChars, v \in ValuesOfLen(n - 1)}
CookieValues == UNION {ValuesOfLen(n) : n \in 0..MaxValueLen}

\* decodeURIComponent: ok is false where it throws URIError.
RECURSIVE DecodeURIComponent(_)
DecodeURIComponent(str) ==
    IF str = <<>> THEN [ok |-> TRUE, out |-> <<>>]
    ELSE IF Head(str) # "%"
    THEN LET rest == DecodeURIComponent(Tail(str))
         IN  [ok |-> rest.ok, out |-> <<Head(str)>> \o rest.out]
    ELSE IF Len(str) >= 3 /\ <<str[2], str[3]>> \in Escapes
    THEN LET rest == DecodeURIComponent(SubSeq(str, 4, Len(str)))
         IN  [ok |-> rest.ok, out |-> <<Unescaped(<<str[2], str[3]>>)>> \o rest.out]
    ELSE [ok |-> FALSE, out |-> <<>>]

\* processUrl: if (value.includes('%')) try { value = decodeURIComponent(value) }
EngineValue(value) ==
    IF \E i \in 1..Len(value) : value[i] = "%"
    THEN LET d == DecodeURIComponent(value)
         IN  IF d.ok THEN d.out ELSE value
    ELSE value

\* An array handed to addCookies in the place of a cookie object: it has
\* neither a sameSite nor a value property.
ArrayAsCookie == [hasSameSite |-> FALSE, sameSite |-> <<>>, value |-> <<"ARRAY">>]

\* One cookie of a session: sameSite may be missing.
Cookies ==
    {[hasSameSite |-> TRUE, sameSite |-> ss, value |-> v] :
        ss \in SameSiteInputs, v \in CookieValues}
      \cup {[hasSameSite |-> FALSE, sameSite |-> <<>>, value |-> v] : v \in CookieValues}

\* FACEBOOK_COOKIES holds the cookie in an array of cookies, or nested in an
\* array of sessions ([[{...}]], the form the two ScraperEngine classes
\* index by session).
CookieEnvs == [nested : BOOLEAN, cookie : Cookies]

\* loadCookies(): cookieSessions holds the parsed cookie.
InjectInit ==
    /\ cookieEnv \in CookieEnvs
    /\ engineCookie = cookieEnv.cookie
    /\ handed = <<>>

InjectFrame ==
    /\ UNCHANGED <<parallelIndex, parallelReturned>>
    /\ UNCHANGED <<syncerVars, queueVars, workerVars, scrapeVars, engineVars,
                   ingestVars, poolVars, pollVars, jobVars, startVars>>

\* processUrl, one attempt: the map assigns to the cookie objects of
\* cookieSessions and returns them to addCookies.  Where the session is a
\* cookie object (no array of sessions), it has no map: the attempt throws
\* and hands nothing over.
EngineInject ==
    /\ Len(handed) < MaxInjects
    /\ cookieEnv.nested
    /\ LET cookie == [hasSameSite |-> engineCookie.hasSameSite,
                      sameSite |-> IF engineCookie.hasSameSite
                                   THEN EngineSameSite(engineCookie.sameSite)
                                   ELSE engineCookie.sameSite,
                      value |-> EngineValue(engineCookie.value)]
       IN  /\ engineCookie' = cookie
           /\ handed' = Append(handed, [by |-> "engine", cookie |-> cookie])
    /\ UNCHANGED cookieEnv
    /\ InjectFrame

\* scrapeUrl of services/worker/worker.js: FACEBOOK_COOKIES is parsed anew,
\* a nested array is flattened and each cookie is copied.
WorkerInject ==
    /\ Len(handed) < MaxInjects
    /\ LET env == cookieEnv.cookie
           cookie == [hasSameSite |-> env.hasSameSite,
                      sameSite |-> IF env.hasSameSite
                                   THEN WorkerSameSite(env.sameSite)
                                   ELSE env.sameSite,
                      value |-> env.value]
       IN  handed' = Append(handed, [by |-> "worker", cookie |-> cookie])
    /\ UNCHANGED <<cookieEnv, engineCookie>>
    /\ InjectFrame

\* scrapeUrl of the other worker.js of the repository (part_011):
\* FACEBOOK_COOKIES is parsed anew and the parsed array goes to addCookies
\* as it is, a nested array with its inner array in the place of a cookie.
WorkerInjectAsParsed ==
    /\ Len(handed) < MaxInjects
    /\ handed' = Append(handed, [by |-> "worker",
                                  cookie |-> IF cookieEnv.nested
                                             THEN ArrayAsCookie
                                             ELSE cookieEnv.cookie])
    /\ UNCHANGED <<cookieEnv, engineCookie>>
    /\ InjectFrame

\* ScraperParallel.processUrl: each cookie of its own cookieSessions (loaded
\* from FACEBOOK_COOKIES, never assigned to) is copied with its value decoded
\* (no test for '%', no try) and its sameSite fixed.  Where
\* decodeURIComponent throws, processUrl's catch returns an error result and
\* nothing is handed to the browser; where the session is a cookie object
\* (no array of sessions) it has no length and the injection is skipped.
ParallelInject ==
    /\ Len(handed) < MaxInjects
    /\ cookieEnv.nested
    /\ LET env == cookieEnv.cookie
           d == DecodeURIComponent(env.value)
           cookie == [hasSameSite |-> env.hasSameSite,
                      sameSite |-> IF env.hasSameSite
                                   THEN ParallelSameSite(env.sameSite)
                                   ELSE env.sameSite,
                      value |-> d.out]
       IN  /\ d.ok
           /\ handed' = Append(handed, [by |-> "parallel", cookie |-> cookie])
    /\ UNCHANGED <<cookieEnv, engineCookie>>
    /\ InjectFrame

InjectNext == EngineInject \/ WorkerInject \/ WorkerInjectAsParsed \/ ParallelInject

----------------------------------------------------------------------------
\* The ingestor loop: startIngestor.runLoop and pollAndIngest (ingestor.js)

\* Bounds of the ingestor model
MaxPolls == 3             \* polls of one run
MaxAddErrors == 1         \* sheet or Redis calls rejecting during polls

\* Program constants
POLL_INTERVAL_MS == 60000 \* INGESTOR_POLL_INTERVAL_MS (default)
RepollDelayMs == 5000     \* setTimeout(runLoop, 5000)

NoPoll == [ret |-> 0, read |-> 0, fresh |-> 0, failed |-> FALSE, delay |-> 0]
PollOff == [pc |-> "off", items |-> <<>>, read |-> 0, added |-> 0, fresh |-> 0]

\* startIngestor(sheetId) up to the first runLoop() call.
IngestInit ==
    /\ isRunning = TRUE
    /\ ingestProc = "running"
    /\ timeoutId = 0
    /\ poll = [PollOff EXCEPT !.pc = "ready"]
    /\ lastPoll = NoPoll
    /\ pollCount = 0
    /\ addErrors = 0

IngestIdle ==
    /\ isRunning = FALSE
    /\ ingestProc = "none"
    /\ timeoutId = 0
    /\ poll = PollOff
    /\ lastPoll = NoPoll
    /\ pollCount = 0
    /\ addErrors = 0

\* if (added > 0) setTimeout(runLoop, 5000) else setTimeout(runLoop, POLL_INTERVAL_MS)
NextDelay(added) == IF added > 0 THEN RepollDelayMs ELSE POLL_INTERVAL_MS

\* pollAndIngest returned `ret` to runLoop, which arms the next poll.
PollReturns(ret, failed) ==
    /\ timeoutId' = NextDelay(ret)
    /\ lastPoll' = [ret |-> ret, read |-> poll.read, fresh |-> poll.fresh,
                    failed |-> failed, delay |-> NextDelay(ret)]
    /\ pollCount' = pollCount + 1
    /\ poll' = [PollOff EXCEPT !.pc = "armed"]

\* runLoop() is called (by startIngestor or by the timeout) and calls
\* pollAndIngest, which awaits getPendingRows.
RunLoop ==
    /\ isRunning
    /\ poll.pc \in {"ready", "armed"}
    /\ pollCount < MaxPolls
    /\ poll' = [PollOff EXCEPT !.pc = "reading"]
    /\ timeoutId' = 0
    /\ UNCHANGED <<isRunning, ingestProc, lastPoll, pollCount, addErrors>>
    /\ UNCHANGED <<syncerVars, queueVars, workerVars, scrapeVars, engineVars>>
    /\ UNCHANGED <<poolVars, pollVars, jobVars, startVars, cookieVars>>

\* getPendingRows(sheetId, BATCH_SIZE) resolved.
PollRead ==
    /\ poll.pc = "reading"
    /\ LET pendingRows == GetPendingRows(IngestorSheet, BATCH_SIZE) IN
       IF Len(pendingRows) = 0
       THEN PollReturns(0, FALSE)
       ELSE /\ poll' = [poll EXCEPT !.pc = "adding", !.items = pendingRows,
                                    !.read = Len(pendingRows)]
            /\ UNCHANGED <<timeoutId, lastPoll, pollCount>>
    /\ UNCHANGED <<isRunning, ingestProc, addErrors>>
    /\ UNCHANGED <<syncerVars, queueVars, workerVars, scrapeVars, engineVars>>
    /\ UNCHANGED <<poolVars, pollVars, jobVars, startVars, cookieVars>>

\* getPendingRows rejected: the outer catch returns 0.
PollReadFails ==
    /\ poll.pc = "reading"
    /\ addErrors < MaxAddErrors
    /\ addErrors' = addErrors + 1
    /\ PollReturns(0, TRUE)
    /\ UNCHANGED <<isRunning, ingestProc>>
    /\ UNCHANGED <<syncerVars, queueVars, workerVars, scrapeVars, engineVars>>
    /\ UNCHANGED <<poolVars, pollVars, jobVars, startVars, cookieVars>>

\* One iteration of the loop: await scrapeQueue.add(...) resolved; added++.
\* (Queue.add resolves for a known jobId too, so the duplicate branch of the
\* inner catch is never taken.) After the last row: return added.
PollAdd ==
    /\ poll.pc = "adding"
    /\ LET row == Head(poll.items)
           id == JobId(IngestorSheet, row.rowIndex)
           fresh == poll.fresh + (IF HasJob(scrapeQueue, id) THEN 0 ELSE 1)
           added == poll.added + 1
       IN  /\ scrapeQueue' = QueueAdd(scrapeQueue, id,
                                      [url |-> row.url, rowIndex |-> row.rowIndex,
                                       sheetId |-> IngestorSheet])
           /\ IF Len(poll.items) = 1
              THEN /\ timeoutId' = NextDelay(added)
                   /\ lastPoll' = [ret |-> added, read |-> poll.read, fresh |-> fresh,
                                   failed |-> FALSE, delay |-> NextDelay(added)]
                   /\ pollCount' = pollCount + 1
                   /\ poll' = [PollOff EXCEPT !.pc = "armed"]
              ELSE /\ poll' = [poll EXCEPT !.items = Tail(@), !.added = added,
                                           !.fresh = fresh]
                   /\ UNCHANGED <<timeoutId, lastPoll, pollCount>>
    /\ UNCHANGED <<isRunning, ingestProc, addErrors>>
    /\ UNCHANGED <<ingestor, api, apiResponse, queuePaused, rowStatus>>
    /\ UNCHANGED <<syncerVars, workerVars, scrapeVars, engineVars>>
    /\ UNCHANGED <<poolVars, pollVars, jobVars, startVars, cookieVars>>

\* scrapeQueue.add rejected (Redis error): rethrown by the inner catch, the
\* outer catch returns 0.
PollAddFails ==
    /\ poll.pc = "adding"
    /\ addErrors < MaxAddErrors
    /\ addErrors' = addErrors + 1
    /\ PollReturns(0, TRUE)
    /\ UNCHANGED <<isRunning, ingestProc>>
    /\ UNCHANGED <<syncerVars, queueVars, workerVars, scrapeVars, engineVars>>
    /\ UNCHANGED <<poolVars, pollVars, jobVars, startVars, cookieVars>>

\* scrapeQueue.add rejected because the queue is being closed by shutdown():
\* rethrown by the inner catch, the outer catch returns 0.
PollAddClosed ==
    /\ poll.pc = "adding"
    /\ ingestProc = "closing"
    /\ PollReturns(0, TRUE)
    /\ UNCHANGED <<isRunning, ingestProc, addErrors>>
    /\ UNCHANGED <<syncerVars, queueVars, workerVars, scrapeVars, engineVars>>
    /\ UNCHANGED <<poolVars, pollVars, jobVars, startVars, cookieVars>>

\* The timeout fires after shutdown() has started: if (!isRunning) return.
RunLoopStopped ==
    /\ ~isRunning
    /\ poll.pc \in {"ready", "armed"}
    /\ poll' = PollOff
    /\ timeoutId' = 0
    /\ UNCHANGED <<isRunning, ingestProc, lastPoll, pollCount, addErrors>>
    /\ UNCHANGED <<syncerVars, queueVars, workerVars, scrapeVars, engineVars>>
    /\ UNCHANGED <<poolVars, pollVars, jobVars, startVars, cookieVars>>

\* SIGTERM / SIGINT: shutdown() of the ingestor up to
\* `await scrapeQueue.close()`; a poll in progress goes on.
IngestShutdown ==
    /\ isRunning
    /\ isRunning' = FALSE
    /\ ingestProc' = "closing"
    /\ timeoutId' = 0
    /\ poll' = IF poll.pc = "armed" THEN PollOff ELSE poll
    /\ UNCHANGED <<lastPoll, pollCount, addErrors>>
    /\ UNCHANGED <<syncerVars, queueVars, workerVars, scrapeVars, engineVars>>
    /\ UNCHANGED <<poolVars, pollVars, jobVars, startVars, cookieVars>>

\* scrapeQueue.close() resolved: process.exit(0).
IngestExit ==
    /\ ingestProc = "closing"
    /\ ingestProc' = "exited"
    /\ timeoutId' = 0
    /\ poll' = PollOff
    /\ UNCHANGED <<isRunning, lastPoll, pollCount, addErrors>>
    /\ UNCHANGED <<syncerVars, queueVars, workerVars, scrapeVars, engineVars>>
    /\ UNCHANGED <<poolVars, pollVars, jobVars, startVars, cookieVars>>

\* The ingestor with the worker and the syncer acting on its queue and sheet.
IngestNext ==
    \/ RunLoop
    \/ PollRead
    \/ PollReadFails
    \/ PollAdd
    \/ PollAddFails
    \/ PollAddClosed
    \/ RunLoopStopped
    \/ IngestShutdown
    \/ IngestExit
    \/ ConsumerNext(MaxQueueOutcomes, QueueWorkerConcurrency)

----------------------------------------------------------------------------
\* The browser pool of the worker process: initBrowser and the browsing
\* context of scrapeUrl (services/worker/worker.js)

\* Bounds of the pool model
MaxPoolJobs == 3          \* scrape jobs the queue hands to the worker

PoolJobs == 1..MaxPoolJobs
NoBrowser == 0            \* browser: null

PoolInit ==
    /\ browserPool = [browser |-> NoBrowser, isInitialized |-> FALSE]
    /\ launches = 0
    /\ scrapes = [j \in PoolJobs |-> [pc |-> "queued", browser |-> NoBrowser]]
    /\ contexts = {}
    /\ contextLog = {}

InFlight(j) == scrapes[j].pc \in {"launching", "context", "body", "closing"}

\* concurrency: the worker runs at most WORKER_CONCURRENCY processJob calls.
SlotAlwaysFree(active) == TRUE
SlotFree(active) == active < WORKER_CONCURRENCY

\* context.close()
CloseSkipped(open, j) == open
CloseContext(open, j) == {c \in open : c.owner # j}

\* The worker calls processJob(job): scrapeUrl calls initBrowser(), which
\* returns the pooled browser or calls chromium.launch().
PStart(j) ==
    /\ scrapes[j].pc = "queued"
    /\ SlotFree(Cardinality({k \in PoolJobs : InFlight(k)}))
    /\ IF browserPool.isInitialized /\ browserPool.browser # NoBrowser
       THEN /\ scrapes' = [scrapes EXCEPT ![j] = [pc |-> "context",
                                                   browser |-> browserPool.browser]]
            /\ UNCHANGED launches
       ELSE /\ launches' = launches + 1
            /\ scrapes' = [scrapes EXCEPT ![j] = [pc |-> "launching",
                                                   browser |-> launches + 1]]
    /\ UNCHANGED <<browserPool, contexts, contextLog>>
    /\ UNCHANGED <<syncerVars, queueVars, workerVars, scrapeVars, engineVars>>
    /\ UNCHANGED <<ingestVars, pollVars, jobVars, startVars, cookieVars>>

\* chromium.launch() resolved: browserPool.browser = ...; isInitialized = true.
PLaunched(j) ==
    /\ scrapes[j].pc = "launching"
    /\ browserPool' = [browser |-> scrapes[j].browser, isInitialized |-> TRUE]
    /\ scrapes' = [scrapes EXCEPT ![j].pc = "context"]
    /\ UNCHANGED <<launches, contexts, contextLog>>
    /\ UNCHANGED <<syncerVars, queueVars, workerVars, scrapeVars, engineVars>>
    /\ UNCHANGED <<ingestVars, pollVars, jobVars, startVars, cookieVars>>

\* chromium.launch() or browser.newContext() rejected: scrapeUrl rejects
\* before its try block.
PInitFails(j) ==
    /\ scrapes[j].pc \in {"launching", "context"}
    /\ infraErrors < MaxInfraErrors
    /\ infraErrors' = infraErrors + 1
    /\ scrapes' = [scrapes EXCEPT ![j].pc = "done"]
    /\ UNCHANGED <<browserPool, launches, contexts, contextLog>>
    /\ UNCHANGED <<runs, resultsQueue, outcomes>>
    /\ UNCHANGED <<syncerVars, queueVars, scrapeVars, engineVars>>
    /\ UNCHANGED <<ingestVars, pollVars, jobVars, startVars, cookieVars>>

\* browser.newContext() resolved.
PNewContext(j) ==
    /\ scrapes[j].pc = "context"
    /\ contexts' = contexts \cup {[owner |-> j, browser |-> scrapes[j].browser]}
    /\ contextLog' = contextLog \cup {scrapes[j].browser}
    /\ scrapes' = [scrapes EXCEPT ![j].pc = "body"]
    /\ UNCHANGED <<browserPool, launches>>
    /\ UNCHANGED <<syncerVars, queueVars, workerVars, scrapeVars, engineVars>>
    /\ UNCHANGED <<ingestVars, pollVars, jobVars, startVars, cookieVars>>

\* The try block ended, normally or through the catch block.
PBody(j) ==
    /\ scrapes[j].pc = "body"
    /\ scrapes' = [scrapes EXCEPT ![j].pc = "closing"]
    /\ UNCHANGED <<browserPool, launches, contexts, contextLog>>
    /\ UNCHANGED <<syncerVars, queueVars, workerVars, scrapeVars, engineVars>>
    /\ UNCHANGED <<ingestVars, pollVars, jobVars, startVars, cookieVars>>

\* finally { await context.close() }; return { email, status }
PClose(j) ==
    /\ scrapes[j].pc = "closing"
    /\ contexts' = CloseContext(contexts, j)
    /\ scrapes' = [scrapes EXCEPT ![j].pc = "done"]
    /\ UNCHANGED <<browserPool, launches, contextLog>>
    /\ UNCHANGED <<syncerVars, queueVars, workerVars, scrapeVars, engineVars>>
    /\ UNCHANGED <<ingestVars, pollVars, jobVars, startVars, cookieVars>>

PoolNext ==
    \/ \E j \in PoolJobs : PStart(j)
    \/ \E j \in PoolJobs : PLaunched(j)
    \/ \E j \in PoolJobs : PInitFails(j)
    \/ \E j \in PoolJobs : PNewContext(j)
    \/ \E j \in PoolJobs : PBody(j)
    \/ \E j \in PoolJobs : PClose(j)

----------------------------------------------------------------------------
\* ScraperEngine: startPolling, processRow and processUrl (scraper.js)

\* Bounds of the polling model
MaxCycles == 2            \* batches one startPolling call starts
MaxSheetErrors == 1       \* sheet API calls rejecting
EngineDataRows == 3       \* data rows of the sheet, all with a url

\* Program constants
PARALLEL_BATCH_SIZE == 2  \* PARALLEL_BATCH_SIZE (default 5), set small here

EngineRows == 2..(EngineDataRows + 1)

\* No session injected: the attempt runs without cookies, or has not reached
\* the injection.
NoSession == -1
IdleRow == [pc |-> "idle", attempt |-> 0, maxRetries |-> 0, ctx |-> FALSE,
            why |-> "", result |-> NoEmail, write |-> "", raised |-> 0,
            extracted |-> 0, session |-> NoSession, reused |-> FALSE]

\* new ScraperEngine(); init(); startPolling(sheetId) up to
\* `await getPendingRows(sheetId)`.
PollInit ==
    /\ isPolling = TRUE
    /\ cycle = [pc |-> "fetch", batch |-> {}, errors |-> 0]
    /\ rowProc = [r \in EngineRows |-> IdleRow]
    /\ sheet = [r \in EngineRows |-> ""]
    /\ cycles = 0
    /\ cookieSessions \in SessionLists
    /\ currentSessionIndex = 0
    /\ rotateReturned = "none"
    /\ rotateCalls = 0

PollFrame ==
    /\ UNCHANGED <<cookieSessions, rotateReturned, rotateCalls>>
    /\ UNCHANGED <<syncerVars, queueVars, workerVars, scrapeVars>>
    /\ UNCHANGED <<ingestVars, poolVars, jobVars, startVars, cookieVars>>

\* rows.filter(({ row, url }) => url && !row.status)
Pending == {r \in EngineRows : sheet[r] = ""}
\* pending.slice(0, batchSize)
FirstRows(S, n) == Range(Take(SortedRows(S), n))

\* getPendingRows resolved: sleep when nothing is pending, else start
\* processRow for every row of the batch (each runs up to markAsProcessing).
CFetch ==
    /\ cycle.pc = "fetch"
    /\ IF Pending = {}
       THEN /\ cycle' = [cycle EXCEPT !.pc = "sleep"]
            /\ UNCHANGED <<rowProc, cycles>>
       ELSE /\ cycles < MaxCycles
            /\ LET batch == FirstRows(Pending, PARALLEL_BATCH_SIZE) IN
               /\ cycle' = [cycle EXCEPT !.pc = "batch", !.batch = batch]
               /\ rowProc' = [r \in EngineRows |->
                                IF r \in batch THEN [IdleRow EXCEPT !.pc = "mark"]
                                ELSE rowProc[r]]
            /\ cycles' = cycles + 1
    /\ UNCHANGED <<isPolling, sheet, currentSessionIndex>>
    /\ PollFrame

\* getPendingRows rejected: catch, sleep.
CFetchFails ==
    /\ cycle.pc = "fetch"
    /\ cycle.errors < MaxSheetErrors
    /\ cycle' = [cycle EXCEPT !.pc = "sleep", !.errors = @ + 1]
    /\ UNCHANGED <<isPolling, rowProc, sheet, cycles, currentSessionIndex>>
    /\ PollFrame

\* Promise.allSettled(batch.map(processRow)) resolved.
CSettled ==
    /\ cycle.pc = "batch"
    /\ \A r \in cycle.batch : rowProc[r].pc = "settled"
    /\ cycle' = [cycle EXCEPT !.pc = "sleep", !.batch = {}]
    /\ UNCHANGED <<isPolling, rowProc, sheet, cycles, currentSessionIndex>>
    /\ PollFrame

\* sleep(intervalMs) resolved: while (this.isPolling)
CWake ==
    /\ cycle.pc = "sleep"
    /\ cycle' = [cycle EXCEPT !.pc = IF isPolling THEN "fetch" ELSE "stopped"]
    /\ UNCHANGED <<isPolling, rowProc, sheet, cycles, currentSessionIndex>>
    /\ PollFrame

\* stopPolling()
StopPolling ==
    /\ isPolling
    /\ isPolling' = FALSE
    /\ UNCHANGED <<cycle, rowProc, sheet, cycles, currentSessionIndex>>
    /\ PollFrame

\* const maxRetries = this.cookieSessions.length > 0 ? this.cookieSessions.length : 1
MaxRetriesOf(n) == IF n > 0 THEN n ELSE 1

\* rotateCookie() as a function of the session count and the cursor.
RotateNoAdvance(n, index) == [ret |-> ~SingleOrNone(n), index |-> index]
Rotate(n, index) ==
    IF SingleOrNone(n)
    THEN [ret |-> FALSE, index |-> index]
    ELSE [ret |-> TRUE, index |-> (index + 1) % n]

\* An attempt ended without success: while (attempt < maxRetries && !success),
\* else `return null`, and processRow writes 'Not found' / 'Done'.
AfterAttemptOneMore(p) ==
    IF p.attempt < p.maxRetries + 1
    THEN [p EXCEPT !.pc = "newctx", !.attempt = @ + 1, !.why = ""]
    ELSE [p EXCEPT !.pc = "update", !.why = "", !.result = NoEmail, !.write = "Done",
                   !.session = NoSession, !.reused = FALSE]
AfterAttempt(p) ==
    IF p.attempt < p.maxRetries
    THEN [p EXCEPT !.pc = "newctx", !.attempt = @ + 1, !.why = ""]
    ELSE [p EXCEPT !.pc = "update", !.why = "", !.result = NoEmail, !.write = "Done",
                   !.session = NoSession, !.reused = FALSE]

\* catch (error) of processUrl: rotate; retry after closing the context, or
\* fall through to finally.
Caught(p, rot) ==
    IF p.ctx
    THEN [p EXCEPT !.pc = "close", !.raised = @ + 1,
                   !.why = IF rot.ret THEN "retry-error" ELSE "final-error"]
    ELSE AfterAttempt([p EXCEPT !.raised = @ + 1])

\* markAsProcessing resolved; processUrl starts its first attempt.
RMark(r) ==
    /\ rowProc[r].pc = "mark"
    /\ sheet' = [sheet EXCEPT ![r] = "Processing"]
    /\ rowProc' = [rowProc EXCEPT ![r] =
                      [@ EXCEPT !.pc = "newctx", !.attempt = 1,
                                !.maxRetries = MaxRetriesOf(Len(cookieSessions))]]
    /\ UNCHANGED <<isPolling, cycle, cycles, currentSessionIndex>>
    /\ PollFrame

\* markAsProcessing rejected: catch of processRow, updateRowStatus 'Failed'.
RMarkFails(r) ==
    /\ rowProc[r].pc = "mark"
    /\ cycle.errors < MaxSheetErrors
    /\ cycle' = [cycle EXCEPT !.errors = @ + 1]
    /\ rowProc' = [rowProc EXCEPT ![r] = [@ EXCEPT !.pc = "update", !.write = "Failed"]]
    /\ UNCHANGED <<isPolling, sheet, cycles, currentSessionIndex>>
    /\ PollFrame

\* The session an attempt injects: this.cookieSessions[this.currentSessionIndex],
\* read after newContext has resolved.
InjectedSession(n, index) == IF n > 0 THEN index ELSE NoSession
\* The attempt injects the session the previous attempt of the call injected.
SameSession(previous, injected) == previous # NoSession /\ injected = previous

\* this.browser.newContext() resolved; cookies, page and route are set up
\* and page.goto is awaited.
RNewContext(r) ==
    /\ rowProc[r].pc = "newctx"
    /\ rowProc' = [rowProc EXCEPT ![r] =
                      [@ EXCEPT !.pc = "goto", !.ctx = TRUE,
                                !.reused = SameSession(rowProc[r].session,
                                              InjectedSession(Len(cookieSessions),
                                                              currentSessionIndex)),
                                !.session = InjectedSession(Len(cookieSessions),
                                                            currentSessionIndex)]]
    /\ UNCHANGED <<isPolling, cycle, sheet, cycles, currentSessionIndex>>
    /\ PollFrame

\* this.browser.newContext() rejected (context is still null).
RNewContextFails(r) ==
    /\ rowProc[r].pc = "newctx"
    /\ LET rot == Rotate(Len(cookieSessions), currentSessionIndex) IN
       /\ currentSessionIndex' = rot.index
       /\ rowProc' = [rowProc EXCEPT ![r] = Caught(@, rot)]
    /\ UNCHANGED <<isPolling, cycle, sheet, cycles>>
    /\ PollFrame

\* page.goto resolved on the page itself.
RGoto(r) ==
    /\ rowProc[r].pc = "goto"
    /\ rowProc' = [rowProc EXCEPT ![r] = [@ EXCEPT !.pc = "extract"]]
    /\ UNCHANGED <<isPolling, cycle, sheet, cycles, currentSessionIndex>>
    /\ PollFrame

\* page.goto resolved on a login or checkpoint url: rotateCookie(), then
\* close and retry, or go on with this page.
RGotoLogin(r) ==
    /\ rowProc[r].pc = "goto"
    /\ LET rot == Rotate(Len(cookieSessions), currentSessionIndex) IN
       /\ currentSessionIndex' = rot.index
       /\ rowProc' = [rowProc EXCEPT ![r] =
                         IF rot.ret
                         THEN [@ EXCEPT !.pc = "close", !.why = "retry-login"]
                         ELSE [@ EXCEPT !.pc = "extract", !.why = "login-kept"]]
    /\ UNCHANGED <<isPolling, cycle, sheet, cycles>>
    /\ PollFrame

\* page.goto, waitForTimeout or page.evaluate rejected.
RPageFails(r) ==
    /\ rowProc[r].pc \in {"goto", "extract"}
    /\ LET rot == Rotate(Len(cookieSessions), currentSessionIndex) IN
       /\ currentSessionIndex' = rot.index
       /\ rowProc' = [rowProc EXCEPT ![r] = Caught(@, rot)]
    /\ UNCHANGED <<isPolling, cycle, sheet, cycles>>
    /\ PollFrame

\* page.evaluate resolved: success = true; return pageData.email (finally
\* closes the context first).
RExtract(r, email) ==
    /\ rowProc[r].pc = "extract"
    /\ rowProc' = [rowProc EXCEPT ![r] =
                      [@ EXCEPT !.pc = "close", !.why = "return", !.result = email,
                                !.extracted = @ + 1]]
    /\ UNCHANGED <<isPolling, cycle, sheet, cycles, currentSessionIndex>>
    /\ PollFrame

\* context.close() resolved (on the retry paths finally closes it once more,
\* which changes nothing).
RClose(r) ==
    /\ rowProc[r].pc = "close"
    /\ LET closed == [rowProc[r] EXCEPT !.ctx = FALSE] IN
       rowProc' = [rowProc EXCEPT ![r] =
                      IF closed.why = "return"
                      THEN [closed EXCEPT !.pc = "update", !.write = "Done",
                                          !.session = NoSession, !.reused = FALSE]
                      ELSE AfterAttempt(closed)]
    /\ UNCHANGED <<isPolling, cycle, sheet, cycles, currentSessionIndex>>
    /\ PollFrame

\* updateRowStatus(sheetId, rowIndex, ..., status) resolved; processRow
\* settles.
RUpdate(r) ==
    /\ rowProc[r].pc = "update"
    /\ sheet' = [sheet EXCEPT ![r] = rowProc[r].write]
    /\ rowProc' = [rowProc EXCEPT ![r] = [@ EXCEPT !.pc = "settled"]]
    /\ UNCHANGED <<isPolling, cycle, cycles, currentSessionIndex>>
    /\ PollFrame

\* updateRowStatus rejected: for 'Done' the catch of processRow tries
\* 'Failed'; for 'Failed' processRow rejects.
RUpdateFails(r) ==
    /\ rowProc[r].pc = "update"
    /\ cycle.errors < MaxSheetErrors
    /\ cycle' = [cycle EXCEPT !.errors = @ + 1]
    /\ rowProc' = [rowProc EXCEPT ![r] =
                      IF @.write = "Done" THEN [@ EXCEPT !.write = "Failed"]
                      ELSE [@ EXCEPT !.pc = "settled"]]
    /\ UNCHANGED <<isPolling, sheet, cycles, currentSessionIndex>>
    /\ PollFrame

RowStep(r) ==
    \/ RMark(r)
    \/ RNewContext(r)
    \/ RNewContextFails(r)
    \/ RGoto(r)
    \/ RGotoLogin(r)
    \/ RPageFails(r)
    \/ \E email \in {NoEmail, "a@x.io"} : RExtract(r, email)
    \/ RClose(r)
    \/ RUpdate(r)

PollNext ==
    \/ CFetch
    \/ CFetchFails
    \/ CSettled
    \/ CWake
    \/ StopPolling
    \/ \E r \in EngineRows : RMark(r)
    \/ \E r \in EngineRows : RMarkFails(r)
    \/ \E r \in EngineRows : RNewContext(r)
    \/ \E r \in EngineRows : RNewContextFails(r)
    \/ \E r \in EngineRows : RGoto(r)
    \/ \E r \in EngineRows : RGotoLogin(r)
    \/ \E r \in EngineRows : RPageFails(r)
    \/ \E r \in EngineRows, email \in {NoEmail, "a@x.io"} : RExtract(r, email)
    \/ \E r \in EngineRows : RClose(r)
    \/ \E r \in EngineRows : RUpdate(r)
    \/ \E r \in EngineRows : RUpdateFails(r)

----------------------------------------------------------------------------
\* ---- JobManager: polling jobs of the API server ----
MaxJobs == 2
JobIds == 1..MaxJobs
JobSheets == {"s1", "s2"}
JobStatuses == {"running", "stopping", "stopped", "completed", "error"}

\* A job id that startJob has not used: no record in this.jobs.
NoJob ==
    [phase |-> "free", sheetId |-> "", status |-> "none", loop |-> "none",
     browser |-> FALSE, at |-> "none", lastPoll |-> "none",
     loopError |-> FALSE, isPolling |-> FALSE, stops |-> 0]

JobInit == jobs = [j \in JobIds |-> NoJob]

InMap(j) == jobs[j].phase = "live"

\* findJobBySheetId: a job of that sheet whose status is 'running'.
FindJobBySheetId(s) ==
    {j \in JobIds : InMap(j) /\ jobs[j].sheetId = s /\ jobs[j].status = "running"}

JobFrame ==
    UNCHANGED <<syncerVars, queueVars, workerVars, scrapeVars, engineVars,
                ingestVars, poolVars, pollVars, startVars, cookieVars>>

\* The field `at` of a job is where the loop of startPolling waits: "rows"
\* at `await getPendingRows`, "batch" at `await Promise.allSettled`, "sleep"
\* at `await this.sleep`.

\* startJob up to 'await scraper.init()'.  With a running job of the sheet
\* it returns that job's id and changes nothing.
StartJob(j, s) ==
    /\ jobs[j].phase = "free"
    /\ \A i \in JobIds : i < j => jobs[i].phase # "free"
    /\ FindJobBySheetId(s) = {}
    /\ jobs' = [jobs EXCEPT ![j].phase = "starting", ![j].sheetId = s]
    /\ JobFrame

\* init() resolved (the scraper has its browser): the record is stored with
\* status 'running', and runPollingLoop runs up to the first await of
\* startPolling, which is inside its loop: `if (!this.browser) await
\* this.init()` is skipped, isPolling is set and getPendingRows is called.
StartJobInitDone(j) ==
    /\ jobs[j].phase = "starting"
    /\ jobs' = [jobs EXCEPT ![j].phase = "live", ![j].status = "running",
                            ![j].browser = TRUE, ![j].at = "rows",
                            ![j].loop = "polling", ![j].isPolling = TRUE]
    /\ JobFrame

\* init() rejected: startJob throws, no record is stored.
StartJobInitFails(j) ==
    /\ jobs[j].phase = "starting"
    /\ jobs' = [jobs EXCEPT ![j] = NoJob]
    /\ JobFrame

\* runPollingLoop once startPolling has settled: catch (on rejection), then
\* finally.
StatusAfterLoop(status, rejected) ==
    LET caught == IF rejected THEN "error" ELSE status
    IN  IF caught # "stopped" THEN "completed" ELSE caught

\* How startPolling may settle (TRUE: it rejects).  Every await of its loop
\* is inside the try of the loop body, whose catch logs and sleeps; the one
\* await outside is the init() of a scraper that has no browser.
StartPollingRejects(hasBrowser) == IF hasBrowser THEN {FALSE} ELSE {FALSE, TRUE}

\* getPendingRows resolved with pending rows: processRow starts for each row
\* of the batch and the loop waits for all of them to settle.  Whether
\* stopPolling() has been called in the meantime is not looked at here.
PollBatch(j) ==
    /\ InMap(j)
    /\ jobs[j].loop = "polling"
    /\ jobs[j].at = "rows"
    /\ jobs' = [jobs EXCEPT ![j].at = "batch"]
    /\ JobFrame

\* An iteration of the loop of startPolling ends without error:
\* getPendingRows resolved with no pending row, or the batch has settled
\* (allSettled does not reject); the loop sleeps.  The iteration in flight
\* ends like this after stopPolling() too: isPolling is read only by the
\* `while` after the sleep.
PollDone(j) ==
    /\ InMap(j)
    /\ jobs[j].loop = "polling"
    /\ jobs[j].at \in {"rows", "batch"}
    /\ jobs' = [jobs EXCEPT ![j].at = "sleep", ![j].lastPoll = "ok"]
    /\ JobFrame

\* An iteration of the loop fails (getPendingRows rejects): the catch of the
\* loop body logs 'Polling error' and sleeps; the error does not leave
\* startPolling and the job record is not touched.
PollFails(j) ==
    /\ InMap(j)
    /\ jobs[j].loop = "polling"
    /\ jobs[j].at = "rows"
    /\ jobs' = [jobs EXCEPT ![j].at = "sleep", ![j].lastPoll = "error"]
    /\ JobFrame

\* The sleep resolved and `while (this.isPolling)` holds: the next
\* iteration calls getPendingRows.
SleepDone(j) ==
    /\ InMap(j)
    /\ jobs[j].loop = "polling"
    /\ jobs[j].at = "sleep"
    /\ jobs[j].isPolling
    /\ jobs' = [jobs EXCEPT ![j].at = "rows"]
    /\ JobFrame

\* startPolling settles and runPollingLoop runs its catch (on a rejection)
\* and its finally.  It resolves when its sleep resolves and the `while`
\* sees isPolling false.
LoopSettles(j) ==
    /\ InMap(j)
    /\ jobs[j].loop = "polling"
    /\ \E rejected \in StartPollingRejects(jobs[j].browser) :
          /\ ~rejected => (jobs[j].at = "sleep" /\ ~jobs[j].isPolling)
          /\ jobs' = [jobs EXCEPT ![j].loop = "ended", ![j].loopError = rejected,
                                  ![j].at = "none",
                                  ![j].status = StatusAfterLoop(jobs[j].status, rejected)]
    /\ JobFrame

\* stopJob up to 'await job.scraper.close()'.
MaxStopsInFlight == 2
StopJob(j) ==
    /\ InMap(j)
    /\ jobs[j].stops < MaxStopsInFlight
    /\ jobs' = [jobs EXCEPT ![j].status = "stopping", ![j].isPolling = FALSE,
                            ![j].stops = @ + 1]
    /\ JobFrame

\* close() resolved: the rest of stopJob.
StopJobDone(j) ==
    /\ jobs[j].stops > 0
    /\ jobs' = [jobs EXCEPT ![j].status = "stopped", ![j].stops = @ - 1]
    /\ JobFrame

\* close() rejected: stopJob throws after setting 'stopping'.
StopJobFails(j) ==
    /\ jobs[j].stops > 0
    /\ jobs' = [jobs EXCEPT ![j].stops = @ - 1]
    /\ JobFrame

\* getJobStatus: null for an unknown id, else the status of the record.
GetJobStatus(j) == IF InMap(j) THEN jobs[j].status ELSE "null"

JobNext ==
    \/ \E j \in JobIds, s \in JobSheets : StartJob(j, s)
    \/ \E j \in JobIds : StartJobInitDone(j)
    \/ \E j \in JobIds : StartJobInitFails(j)
    \/ \E j \in JobIds : PollBatch(j)
    \/ \E j \in JobIds : PollDone(j)
    \/ \E j \in JobIds : PollFails(j)
    \/ \E j \in JobIds : SleepDone(j)
    \/ \E j \in JobIds : LoopSettles(j)
    \/ \E j \in JobIds : StopJob(j)
    \/ \E j \in JobIds : StopJobDone(j)
    \/ \E j \in JobIds : StopJobFails(j)

----------------------------------------------------------------------------
\* ---- service startup and the Redis connection ----
MaxConnErrors == 2
Services == {"worker", "syncer", "ingestor", "api"}

\* A service process that has not been started.
NotStarted ==
    [phase |-> "down", conn |-> "none", redisAtStart |-> TRUE, errorsLogged |-> 0]

StartInit ==
    /\ redisUp = TRUE
    /\ services = [s \in Services |-> NotStarted]

StartFrame ==
    UNCHANGED <<syncerVars, queueVars, workerVars, scrapeVars, engineVars,
                ingestVars, poolVars, pollVars, jobVars, cookieVars>>

\* What the entry point of a service does once its Queue / Worker objects
\* are constructed on the connection options: none of them waits for the
\* connection or tests it, each logs that it is started.
PhaseAfterStart(up) == "running"

\* Starting a service: createWorker, createSyncer, startIngestor, startServer.
StartService(s) ==
    /\ services[s].phase = "down"
    /\ services' = [services EXCEPT ![s] =
           [phase |-> PhaseAfterStart(redisUp), conn |-> "connecting",
            redisAtStart |-> redisUp, errorsLogged |-> 0]]
    /\ UNCHANGED redisUp
    /\ StartFrame

\* The connection is established (at start, or on a later reconnect).
Connected(s) ==
    /\ services[s].phase = "running"
    /\ services[s].conn = "connecting"
    /\ redisUp
    /\ services' = [services EXCEPT ![s].conn = "ready"]
    /\ UNCHANGED redisUp
    /\ StartFrame

\* A connection attempt fails: the 'error' event of the queue / worker is
\* handled by a listener that logs; with maxRetriesPerRequest null the
\* client keeps reconnecting.
ConnectionError(s) ==
    /\ services[s].phase = "running"
    /\ services[s].conn = "connecting"
    /\ ~redisUp
    /\ services[s].errorsLogged < MaxConnErrors
    /\ services' = [services EXCEPT ![s].errorsLogged = @ + 1]
    /\ UNCHANGED redisUp
    /\ StartFrame

\* An established connection is lost.
ConnectionLost(s) ==
    /\ services[s].phase = "running"
    /\ services[s].conn = "ready"
    /\ ~redisUp
    /\ services' = [services EXCEPT ![s].conn = "connecting"]
    /\ UNCHANGED redisUp
    /\ StartFrame

\* SIGTERM / SIGINT: the handlers close and exit with code 0.
Signalled(s) ==
    /\ services[s].phase = "running"
    /\ services' = [services EXCEPT ![s].phase = "exited", ![s].conn = "none"]
    /\ UNCHANGED redisUp
    /\ StartFrame

RedisGoesDown ==
    /\ redisUp
    /\ redisUp' = FALSE
    /\ UNCHANGED services
    /\ StartFrame

RedisComesUp ==
    /\ ~redisUp
    /\ redisUp' = TRUE
    /\ UNCHANGED services
    /\ StartFrame

StartNext ==
    \/ \E s \in Services : StartService(s)
    \/ \E s \in Services : Connected(s)
    \/ \E s \in Services : ConnectionError(s)
    \/ \E s \in Services : ConnectionLost(s)
    \/ \E s \in Services : Signalled(s)
    \/ RedisGoesDown
    \/ RedisComesUp

----------------------------------------------------------------------------
\* Processes that are not part of a specification do nothing in it.
PoolIdle ==
    /\ browserPool = [browser |-> 0, isInitialized |-> FALSE]
    /\ launches = 0
    /\ scrapes = [j \in PoolJobs |-> [pc |-> "none", browser |-> NoBrowser]]
    /\ contexts = {}
    /\ contextLog = {}

PollIdle ==
    /\ isPolling = FALSE
    /\ cycle = [pc |-> "off", batch |-> {}, errors |-> 0]
    /\ rowProc = [r \in EngineRows |-> IdleRow]
    /\ sheet = [r \in EngineRows |-> ""]
    /\ cycles = 0

JobIdle == jobs = [j \in JobIds |-> NoJob]

StartIdle ==
    /\ redisUp = TRUE
    /\ services = [s \in Services |-> NotStarted]

InjectIdle ==
    /\ cookieEnv = <<>>
    /\ engineCookie = <<>>
    /\ handed = <<>>

CookieIdle == ParallelIdle /\ InjectIdle

ProcIdle == IngestIdle /\ PoolIdle /\ PollIdle /\ JobIdle /\ StartIdle /\ CookieIdle

\* The syncer process is not part of the queue specification.
SyncerIdle ==
    /\ resultBuffer = <<>>
    /\ flushTimer = FALSE
    /\ frame = [c \in Callers |-> IdleFrame]
    /\ shut = "running"
    /\ saved = {}
    /\ accepted = <<>>
    /\ failures = 0
    /\ flushCalls = [k \in {"buf", "timer", "shutdown"} |-> 0]
    /\ lastLogs = <<>>
    /\ kept = {}
    /\ dropped = {}
    /\ atSignal = {}
    /\ syncerFile = "part_002"

\* Behind the producers runs the syncer with the retry loop: with the one
\* outcome of these runs and no sheet error both files take the same steps.
QueueSpecInit == QueueInit /\ SyncerInit /\ RetryLoop /\ WorkerIdle /\ ScrapeIdle /\ EngineIdle /\ ProcIdle
SpecQueue == QueueSpecInit /\ [][QueueNext]_vars
SpecQueueErr == QueueSpecInit /\ [][QueueErrNext]_vars

\* The producers are not part of the syncer specifications.
QueueIdle ==
    /\ scrapeQueue = {}
    /\ ingestor = IdleProducer
    /\ api = IdleProducer
    /\ apiResponse = NoResponse
    /\ rowStatus = [x \in AllRows |-> ""]
    /\ queuePaused = FALSE

SyncerSpecInit == SyncerInit /\ QueueIdle /\ WorkerIdle /\ ScrapeIdle /\ EngineIdle /\ ProcIdle
SpecSyncer == SyncerSpecInit /\ [][SyncerNext]_vars
SpecSyncerErr == SyncerSpecInit /\ [][SyncerErrNext]_vars

WorkerSpecInit == QueueInit /\ WorkerInit /\ SyncerInit /\ ScrapeIdle /\ EngineIdle /\ ProcIdle
SpecWorker == WorkerSpecInit /\ [][WorkerNext]_vars
SpecWorkerErr == WorkerSpecInit /\ [][WorkerErrNext]_vars
SpecWorkerRetry == WorkerSpecInit /\ [][WorkerRetryNext]_vars
SpecWorkerBatch == WorkerSpecInit /\ [][WorkerBatchNext]_vars

ScrapeSpecInit == ScrapeInit /\ QueueIdle /\ WorkerIdle /\ SyncerIdle /\ EngineIdle /\ ProcIdle
SpecScrape == ScrapeSpecInit /\ [][ScrapeCall]_vars

EngineSpecInit == EngineInit /\ QueueIdle /\ WorkerIdle /\ SyncerIdle /\ ScrapeIdle /\ ProcIdle
SpecEngine == EngineSpecInit /\ [][RotateCookie]_vars

IngestSpecInit ==
    /\ IngestInit /\ QueueInit /\ SyncerInit /\ RetryLoop /\ WorkerIdle /\ ScrapeIdle /\ EngineIdle
    /\ PoolIdle /\ PollIdle /\ JobIdle /\ StartIdle /\ CookieIdle
SpecIngest == IngestSpecInit /\ [][IngestNext]_vars

PoolSpecInit ==
    /\ PoolInit /\ QueueIdle /\ SyncerIdle /\ WorkerIdle /\ ScrapeIdle /\ EngineIdle
    /\ IngestIdle /\ PollIdle /\ JobIdle /\ StartIdle /\ CookieIdle
SpecPool == PoolSpecInit /\ [][PoolNext]_vars

PollSpecInit ==
    /\ PollInit /\ QueueIdle /\ SyncerIdle /\ WorkerIdle /\ ScrapeIdle
    /\ IngestIdle /\ PoolIdle /\ JobIdle /\ StartIdle /\ CookieIdle
SpecPoll == PollSpecInit /\ [][PollNext]_vars

\* The two kinds of process that scrape: a queue worker with its browser
\* pool, or an API server with a polling ScraperEngine.
ScrapersSpecInit ==
    /\ \/ PoolInit /\ PollIdle /\ EngineIdle
       \/ PollInit /\ PoolIdle
    /\ QueueIdle /\ SyncerIdle /\ WorkerIdle /\ ScrapeIdle
    /\ IngestIdle /\ JobIdle /\ StartIdle /\ CookieIdle
ScrapersNext == PoolNext \/ PollNext
SpecScrapers == ScrapersSpecInit /\ [][ScrapersNext]_vars

\* Every await of processRow / processUrl settles (page.goto has a timeout),
\* the sheet API answers and polling is not stopped.
PollFairNext ==
    \/ CFetch
    \/ CSettled
    \/ CWake
    \/ \E r \in EngineRows : RMark(r)
    \/ \E r \in EngineRows : RNewContext(r)
    \/ \E r \in EngineRows : RNewContextFails(r)
    \/ \E r \in EngineRows : RGoto(r)
    \/ \E r \in EngineRows : RGotoLogin(r)
    \/ \E r \in EngineRows : RPageFails(r)
    \/ \E r \in EngineRows, email \in {NoEmail, "a@x.io"} : RExtract(r, email)
    \/ \E r \in EngineRows : RClose(r)
    \/ \E r \in EngineRows : RUpdate(r)
SpecPollFair ==
    PollSpecInit /\ [][PollFairNext]_vars /\ \A r \in EngineRows : WF_vars(RowStep(r))

JobSpecInit ==
    /\ JobInit /\ QueueIdle /\ SyncerIdle /\ WorkerIdle /\ ScrapeIdle /\ EngineIdle
    /\ IngestIdle /\ PoolIdle /\ PollIdle /\ StartIdle /\ CookieIdle
SpecJobs == JobSpecInit /\ [][JobNext]_vars

\* Both scraper classes of one process, loaded from the same FACEBOOK_COOKIES;
\* rotateCookie() has no await, so calls of concurrent scrapes interleave as
\* whole calls.
\* The pipeline of one sheet: the ingestor enqueues pending rows, the worker
\* scrapes them and pushes the outcomes, tasks are removed by the retention
\* of the queue or by POST /api/queue/clean, drain or obliterate, and the
\* syncer buffers the outcomes and writes them.
PipelineNext ==
    \/ IngestPoll
    \/ IngestAdd
    \/ ConsumerNext(MaxPipelineOutcomes, QueueWorkerConcurrency)
SpecPipeline == WorkerSpecInit /\ [][PipelineNext]_vars

RotateSpecInit ==
    /\ EngineInit /\ ParallelInit /\ InjectIdle
    /\ QueueIdle /\ SyncerIdle /\ WorkerIdle /\ ScrapeIdle
    /\ IngestIdle /\ PoolIdle /\ PollIdle /\ JobIdle /\ StartIdle
InjectSpecInit ==
    /\ InjectInit /\ ParallelIdle /\ EngineIdle
    /\ QueueIdle /\ SyncerIdle /\ WorkerIdle /\ ScrapeIdle
    /\ IngestIdle /\ PoolIdle /\ PollIdle /\ JobIdle /\ StartIdle
SpecInject == InjectSpecInit /\ [][InjectNext]_vars

RotateNext == RotateCookie \/ ParallelRotateCookie
SpecRotate == RotateSpecInit /\ [][RotateNext]_vars

StartSpecInit ==
    /\ StartInit /\ QueueIdle /\ SyncerIdle /\ WorkerIdle /\ ScrapeIdle /\ EngineIdle
    /\ IngestIdle /\ PoolIdle /\ PollIdle /\ JobIdle /\ CookieIdle
SpecStartup == StartSpecInit /\ [][StartNext]_vars

\* Every await of a running flushBuffer call settles: the sheet call resolves
\* or rejects, the backoff timeout elapses.
FlushStep(c) ==
    LoadOk(c) \/ SaveOk(c) \/ BackoffDone(c) \/ FailRateLimit(c) \/ FailOther(c)
\* The runs in which the flush interval does not elapse: flushes are started
\* by the buffer threshold and by shutdown only.
SyncerNoTimerNext ==
    \/ \E s \in Sheets, r \in ErrRowIndexes : Deliver(s, r, MaxErrOutcomes)
    \/ Signal(ShutCaller)
    \/ Exit
    \/ \E c \in Callers : LoadOk(c)
    \/ \E c \in Callers : SaveOk(c)
    \/ \E c \in Callers : FailRateLimit(c)
    \/ \E c \in Callers : BackoffDone(c)
    \/ \E c \in Callers : FailOther(c)
\* The callers that start a flush in these runs.
NoTimerCallers == {BufCaller, ShutCaller}
\* Every step of a flush that bufferResult or the shutdown handler started is
\* eventually taken: the awaits of flushBuffer settle.
SpecFlushFair ==
    /\ SyncerSpecInit
    /\ [][SyncerNoTimerNext]_vars
    /\ \A c \in NoTimerCallers : WF_vars(FlushStep(c))


\* The syncer keeps running (no signal), the sheet API answers every call,
\* every await of a flush settles and the flush timer fires whenever it is
\* armed.
SyncerRunningNext ==
    \/ \E s \in Sheets, r \in RowIndexes : Deliver(s, r, MaxOutcomes)
    \/ \E c \in TimerCallers : TimerFire(c)
    \/ \E c \in Callers : LoadOk(c)
    \/ \E c \in Callers : SaveOk(c)
SpecSyncerFair ==
    /\ SyncerSpecInit
    /\ [][SyncerRunningNext]_vars
    /\ \A c \in TimerCallers : WF_vars(TimerFire(c))
    /\ \A c \in Callers : WF_vars(FlushStep(c))

----------------------------------------------------------------------------
\* Properties of the scrape queue

SameRow(j1, j2) ==
    j1.data.sheetId = j2.data.sheetId /\ j1.data.rowIndex = j2.data.rowIndex

\* C1: after any sequence of enqueues by the ingestor and by
\* POST /api/start-queue, the scrape queue holds at most one live (waiting,
\* active or delayed) task per (sheetId, rowIndex): enqueueing a row whose key
\* `${sheetId}-row-${rowIndex}` is already in the queue adds nothing.
C1_OneLiveTaskPerRow ==
    \A j1 \in scrapeQueue, j2 \in scrapeQueue :
        (Live(j1) /\ Live(j2) /\ SameRow(j1, j2)) => j1 = j2

\* Both producers have enqueued row 2 of the same sheet (each has done its
\* first add and has row 3 left) while the task of row 2 waits out the backoff
\* of a failed attempt, and the queue holds that one task for the row.
C1_Witness ==
    /\ ingestor.pc = "adding" /\ ingestor.added = 1
    /\ Len(ingestor.items) = 1 /\ ingestor.items[1].rowIndex = 3
    /\ api.pc = "adding" /\ api.added = 1 /\ api.sheetId = ingestor.sheetId
    /\ Len(api.items) = 1 /\ api.items[1].rowIndex = 3
    /\ \E j \in scrapeQueue :
          /\ j.state = "delayed" /\ j.attemptsMade = 1
          /\ j.data.sheetId = api.sheetId /\ j.data.rowIndex = 2
    /\ Cardinality({j \in scrapeQueue :
            j.data.sheetId = api.sheetId /\ j.data.rowIndex = 2}) = 1

----------------------------------------------------------------------------
\* Properties of the syncer (stated for SpecSyncer and SpecSyncerErr)

Active(c) == frame[c].pc # "idle"
Quiescent == \A c \in Callers : ~Active(c)
InBuffer(o) == \E i \in 1..Len(resultBuffer) : o \in Range(resultBuffer[i].items)
HasLog(msg) == \E i \in 1..Len(lastLogs) : lastLogs[i].msg = msg

\* p is o, or an outcome delivered after o for the same row.
Covers(p, o) == p.sheetId = o.sheetId /\ p.rowIndex = o.rowIndex /\ p.seq >= o.seq
\* The row of o has been saved with the values of o or of a later outcome
\* for the row (two results of one row in a flush are saved as the later one).
Written(o) == \E p \in saved : Covers(p, o)

\* The results a flush that awaits a save is still going to save: the rest
\* of rowsToSave, or (part_006) the results from the one being saved onwards.
ToSave(f) ==
    IF RetryLoop
    THEN f.rowsToSave
    ELSE LET results == ResultsOf(resultBuffer, f)
         IN  SelectSeq(SubSeq(results, f.index, Len(results)),
                       LAMBDA p : RowExists(f.cur, p.rowIndex))

\* A running flush that is still going to call row.save() for o.
PendingWrite(c, o) ==
    \/ frame[c].pc \in {"load", "backoff"}
          /\ o \in Range(ResultsOf(resultBuffer, frame[c]))
    \/ frame[c].pc = "save" /\ \E p \in Range(ToSave(frame[c])) : Covers(p, o)

\* o is in no buffer entry, was not saved and no running flush will save it.
Lost(o) ==
    /\ RowExists(o.sheetId, o.rowIndex)
    /\ ~Written(o)
    /\ ~InBuffer(o)
    /\ \A c \in Callers : ~PendingWrite(c, o)

\* C2: with no sheet write failing, once the syncer has nothing buffered and
\* no flush running, every outcome delivered to it (whose row is in the
\* sheet) has been written to the sheet.
C2_AllOutcomesWritten ==
    (Quiescent /\ resultBuffer = <<>>) =>
        \A o \in Range(accepted) : RowExists(o.sheetId, o.rowIndex) => Written(o)

\* C6: an outcome delivered while a flush is in progress is never lost: it is
\* in the buffer, or written, or about to be written by a running flush.
C6_NoOutcomeLost == \A o \in Range(accepted) : ~Lost(o)

NoTimerOrShutdownFlush == flushCalls["timer"] = 0 /\ flushCalls["shutdown"] = 0
CompletedBufFlushes == flushCalls["buf"] - (IF Active(BufCaller) THEN 1 ELSE 0)

\* C3: with no flush started by the timer or by shutdown, the n-th delivered
\* outcome triggers a flushBuffer call exactly when n is a multiple of
\* BUFFER_SIZE (so BUFFER_SIZE outcomes trigger exactly one), no outcome is
\* accepted while that flush runs, and every outcome up to the last completed
\* threshold flush has been written before the next outcome is accepted.
C3_OneFlushPerThreshold ==
    NoTimerOrShutdownFlush =>
        /\ flushCalls["buf"] = Len(accepted) \div BUFFER_SIZE
        /\ Active(BufCaller) => Len(accepted) % BUFFER_SIZE = 0
        /\ \A i \in 1..Len(accepted) :
              (i <= CompletedBufFlushes * BUFFER_SIZE /\ RowExists(accepted[i].sheetId, accepted[i].rowIndex))
                  => Written(accepted[i])

\* BUFFER_SIZE + 1 outcomes were accepted: one threshold flush ran and had
\* written the first outcome before the last one was buffered.
C3_Witness ==
    /\ NoTimerOrShutdownFlush
    /\ Len(accepted) = BUFFER_SIZE + 1
    /\ flushCalls["buf"] = 1
    /\ ~Active(BufCaller)
    /\ RowExists(accepted[1].sheetId, accepted[1].rowIndex) /\ accepted[1] \in saved
    /\ InBuffer(accepted[BUFFER_SIZE + 1])

\* C4: after one outcome was delivered (and nothing else happened to the
\* syncer), the timer is the only source of a flush: while no flush has been
\* started the outcome is buffered and the timer is armed; the timer starts
\* at most one flush, that flush holds the outcome, and once it has completed
\* the buffer is empty, the outcome is written and the timer is armed again,
\* its later firings starting no further flush.
C4_OneTimerFlush ==
    (Len(accepted) = 1 /\ shut = "running") =>
        LET o == accepted[1] IN
        /\ flushCalls["buf"] = 0
        /\ flushCalls["timer"] <= 1
        /\ flushCalls["timer"] = 0 => (InBuffer(o) /\ flushTimer /\ Quiescent)
        /\ flushCalls["timer"] = 1 =>
              \/ \E c \in TimerCallers : PendingWrite(c, o)
              \/ /\ Quiescent /\ resultBuffer = <<>> /\ flushTimer
                 /\ RowExists(o.sheetId, o.rowIndex) => Written(o)

\* The timer flushed the single outcome, and the timer then fired once more
\* on the empty buffer (a firing that logs nothing and starts no flush).
C4_Witness ==
    /\ shut = "running" /\ Len(accepted) = 1
    /\ flushCalls["timer"] = 1 /\ Quiescent
    /\ accepted[1] \in saved /\ resultBuffer = <<>>
    /\ flushTimer /\ lastLogs = <<>>

\* C5: when the syncer process has exited, every outcome that was buffered
\* when the shutdown signal arrived, and whose row is in the sheet, has been
\* written to the sheet (outcomes removed by a non-rate-limit error, which the
\* code drops on purpose, aside).
C5_ShutdownWritesBuffered ==
    shut = "exited" =>
        \A o \in atSignal :
            RowExists(o.sheetId, o.rowIndex) => (Written(o) \/ o \in dropped)

\* C7: on every rate-limit failure that is followed by a retry, the wait
\* before the retry is 2000 ms or 4000 ms and is strictly longer than the
\* wait before the previous retry of that sheet's flush, and that sheet's
\* buffered outcomes (its entry in the buffer) are non-empty and the same as
\* before the attempt.
C7_BackoffGrowsBufferKept ==
    [][\A c \in Callers :
          (frame[c].pc \in {"load", "save"} /\ frame'[c].pc = "backoff") =>
              /\ frame'[c].waitTime > frame[c].waitTime
              /\ frame'[c].waitTime \in {2000, 4000}
              /\ frame'[c].waitTime = 2000 <=> frame[c].retries = 0
              /\ resultBuffer' = resultBuffer
              /\ Len(Items(resultBuffer', frame'[c].cur)) > 0
      ]_vars

ExhaustedLogs(logs) ==
    {i \in 1..Len(logs) : logs[i].msg = "Rate limit retry exhausted"}

\* C8: when a flush that exhausted its rate-limit retries for a
\* sheet returns, that sheet's buffer entry is empty.
C8_DroppedOnExhaustion ==
    \A i \in ExhaustedLogs(lastLogs) :
        frame[lastLogs[i].by].pc = "idle" =>
            Len(Items(resultBuffer, lastLogs[i].sheetId)) = 0

\* C9: an outcome that a flush kept when its rate-limit retries ran out stays
\* in the buffer until a flush writes it (or a non-rate-limit error drops it).
C9_KeptUntilWritten ==
    \A o \in kept : InBuffer(o) \/ Written(o) \/ o \in dropped
                       \/ \E c \in Callers : PendingWrite(c, o)

FailedLogs(logs) ==
    {i \in 1..Len(logs) : logs[i].msg = "Failed to flush results"}

\* C10: right after a sheet's write failed with a non-rate-limit error, the
\* failure is logged with the number of outcomes held (non-zero), the sheet
\* has no entry in the buffer any more, the outcomes are recorded as dropped,
\* and the flush that failed has left that sheet without a retry.
C10_OtherErrorDrops ==
    \A i \in FailedLogs(lastLogs) :
        LET c == lastLogs[i].by IN
        /\ lastLogs[i].n > 0
        /\ ~HasKey(resultBuffer, lastLogs[i].sheetId)
        /\ frame[c].pc = "idle" \/ frame[c].cur # lastLogs[i].sheetId
        /\ dropped # {}

\* A first attempt failed with a non-rate-limit error: the only buffered
\* outcome is gone from the buffer, unwritten, and the flush has returned.
C10_Witness ==
    \E i \in FailedLogs(lastLogs) :
        /\ frame[lastLogs[i].by].pc = "idle"
        /\ failures = 1
        /\ Len(accepted) = 1 /\ accepted[1] \in dropped /\ accepted[1] \notin saved
        /\ resultBuffer = <<>>

----------------------------------------------------------------------------
\* The sheets a flushBuffer call still has to visit, on a step: the keys it
\* has just read when the step is its call, else its current sheet and the
\* rest of sheetsToFlush.
Begun(c) ==
    \E i \in 1..Len(lastLogs') :
        lastLogs'[i].msg = "Flushing buffer" /\ lastLogs'[i].by = c
ToVisit(f) == IF f.pc = "idle" THEN <<>> ELSE <<f.cur>> \o f.rest
ToVisitBefore(c) == IF Begun(c) THEN Keys(resultBuffer') ELSE ToVisit(frame[c])
\* The sheets the call c leaves behind on a step.
Left(c) == Range(ToVisitBefore(c)) \ Range(ToVisit(frame'[c]))
\* The sheet whose write c was attempting before the step.
Attempting(c, s) == ~Begun(c) /\ Active(c) /\ frame[c].cur = s

\* C11: a flushBuffer call leaves a sheet of its sheetsToFlush only
\* after a write attempt for it.
C11_EverySheetAttempted ==
    [][\A c \in Callers : \A s \in Left(c) : Attempting(c, s)]_vars

\* C12: the shutdown handler goes through its steps in order: on the signal
\* the flush timer is cancelled and flushBuffer is called; the worker is
\* closed only after flushBuffer has returned and while no flush of a
\* shutdown handler is running; the process exits only after the worker has
\* been closed, with no result job still being processed and no flush of a
\* shutdown handler running; nothing happens after the exit.
C12_ShutdownOrder ==
    [][/\ (shut = "running" /\ shut' # "running") =>
            /\ shut' \in {"flushing", "closing"}
            /\ ~flushTimer'
            /\ flushCalls'["shutdown"] = flushCalls["shutdown"] + 1
            /\ shut' = "flushing" <=> frame'[ShutCaller].pc # "idle"
       /\ shut = "flushing" => shut' \in {"flushing", "closing"}
       /\ shut' = "closing" => \A c \in ShutCallers : frame'[c].pc = "idle"
       /\ shut = "closing" =>
            /\ shut' \in {"closing", "exited"}
            /\ Len(accepted') = Len(accepted)
            /\ shut' = "exited" => frame[BufCaller].pc = "idle"
       /\ shut = "exited" => UNCHANGED syncerVars
      ]_vars

\* C13: when the process exits nothing is left in the buffer: no outcome was
\* added to it after the shutdown flush had read it.
C13_NothingBufferedAtExit == shut = "exited" => resultBuffer = <<>>

----------------------------------------------------------------------------
\* Claims on the scrape worker

OutcomesFor(sheetId, rowIndex) ==
    {i \in 1..Len(outcomes) :
        outcomes[i].sheetId = sheetId /\ outcomes[i].rowIndex = rowIndex}
\* Nothing is running, waiting or delayed any more, and the syncer has
\* nothing buffered and no flush in progress.
WorkerQuiescent ==
    /\ runs = {}
    /\ \A job \in scrapeQueue : Finished(job)
    /\ \A rj \in resultsQueue : rj.state = "completed"
    /\ TotalBuffered(resultBuffer) = 0
    /\ Quiescent

\* C14: every scrape task that has finished has put exactly one outcome into
\* the results queue, also when the task was retried or delivered again.
C14_ExactlyOneOutcome ==
    \A job \in scrapeQueue :
        (Finished(job) /\ ~\E run \in runs : run.id = job.id)
            => Cardinality(OutcomesFor(job.data.sheetId, job.data.rowIndex)) = 1

\* C15: with several tasks in progress and one whose scrape always throws,
\* every task that has finished has produced its outcome: 'Failed' for the
\* one whose scrape threw, 'Done' or 'Not found' for the others.
C15_ThrowingTaskIsolated ==
    (Cardinality(scrapeQueue) > 1 /\ runs = {} /\ \A job \in scrapeQueue : Finished(job)) =>
        \A job \in scrapeQueue :
            \E i \in OutcomesFor(job.data.sheetId, job.data.rowIndex) :
                IF job.state = "failed" \/ job.data.url = "u-bad"
                THEN outcomes[i].status = "Failed"
                ELSE outcomes[i].status \in {"Done", "Not found"}

\* C16: once everything has settled, the row of a task that used up all its
\* attempts has status 'Failed'.
C16_ExhaustedRowMarkedFailed ==
    WorkerQuiescent =>
        \A job \in scrapeQueue :
            (job.state = "failed" /\ job.attemptsMade = Attempts)
                => rowStatus[<<job.data.sheetId, job.data.rowIndex>>] = "Failed"

\* C17: a task whose navigation fails does not finish before the queue has
\* made all its attempts, and then it is failed.
C17_NavigationFailureRetried ==
    \A job \in scrapeQueue :
        (job.data.url = "u-bad" /\ Finished(job))
            => (job.state = "failed" /\ job.attemptsMade = Attempts)

\* The scrape raised: page.goto rejected, or a textContent() call rejected
\* before any email had been found.
Raised(in) ==
    \/ in.nav = "throws"
    \/ \E i \in 1..Len(in.scripts) :
          /\ in.scripts[i] = "throws"
          /\ \A j \in 1..(i - 1) : in.scripts[j] \notin Emails
\* The emails the scan can reach, by position.
EmailAt(in) ==
    {i \in 1..Len(in.scripts) :
        /\ in.scripts[i] \in Emails
        /\ \A j \in 1..(i - 1) : in.scripts[j] \notin Emails \cup {"throws"}}

\* C18: when the browser context could be opened, the outcome of a scrape is
\* 'Failed' (email 'Not found') if the scrape raised, else 'Done' with the
\* first email of the page if there is one, else 'Not found' (email
\* 'Not found').
C18_StatusMapping ==
    (scrapeOut.called /\ scrapeIn.ctx = "ok") =>
        /\ ~scrapeOut.threw
        /\ IF Raised(scrapeIn)
           THEN scrapeOut.status = "Failed" /\ scrapeOut.email = "Not found"
           ELSE IF EmailAt(scrapeIn) # {}
                THEN /\ scrapeOut.status = "Done"
                     /\ \E i \in EmailAt(scrapeIn) : scrapeOut.email = scrapeIn.scripts[i]
                ELSE scrapeOut.status = "Not found" /\ scrapeOut.email = "Not found"
C18_Witness ==
    /\ scrapeOut.called
    /\ scrapeIn.ctx = "ok" /\ scrapeIn.nav = "ok"
    /\ scrapeIn.scripts = <<"notjson", "b@y.io">>
    /\ scrapeOut.status = "Done" /\ scrapeOut.email = "b@y.io"

\* C19 as stated: every outcome added to the results queue has status 'Done'
\* or 'Failed'.
C19_StatusDoneOrFailed ==
    \A i \in 1..Len(outcomes) : outcomes[i].status \in {"Done", "Failed"}
\* C19 (amended): every outcome added to the results queue has status 'Done',
\* 'Not found' or 'Failed', and its email is an extracted address or
\* 'Not found'.
C19_StatusOneOfThree ==
    \A i \in 1..Len(outcomes) :
        /\ outcomes[i].status \in {"Done", "Not found", "Failed"}
        /\ outcomes[i].email \in Emails \cup {"Not found"}
C19_Witness ==
    /\ \E i \in 1..Len(outcomes) :
          outcomes[i].status = "Not found" /\ outcomes[i].email = "Not found"
    /\ \E i \in 1..Len(outcomes) :
          outcomes[i].status = "Done" /\ outcomes[i].email = "a@x.io"

----------------------------------------------------------------------------
\* Claims on the cookie sessions of ScraperEngine

\* C20: with no session or a single one, a rotateCookie() call leaves
\* currentSessionIndex as it is and returns false.
C20_NoRotationWithoutChoice ==
    [][(Len(cookieSessions) <= 1 /\ rotateCalls' # rotateCalls)
          => (currentSessionIndex' = currentSessionIndex /\ rotateReturned' = "false")]_vars
C20_Witness ==
    /\ Len(cookieSessions) = 1
    /\ rotateCalls >= 3
    /\ rotateReturned = "false"
    /\ currentSessionIndex = 0

----------------------------------------------------------------------------
\* Claims on the ingestor

\* C24: a finished poll has read at most BATCH_SIZE rows and has returned the
\* number of tasks it newly enqueued: a row whose task was already in the
\* queue is not counted, a task enqueued before a later error is.
C24_ReturnsNewlyEnqueued ==
    pollCount > 0 =>
        /\ lastPoll.read <= BATCH_SIZE
        /\ lastPoll.ret = lastPoll.fresh

\* C25: after a poll, while the ingestor runs, exactly one next poll is
\* armed: 5 s ahead if the poll enqueued at least one task, POLL_INTERVAL_MS
\* ahead if it enqueued none or failed.
C25_AdaptiveDelay ==
    (isRunning /\ poll.pc = "armed") =>
        timeoutId = (IF lastPoll.fresh >= 1 /\ ~lastPoll.failed
                     THEN RepollDelayMs ELSE POLL_INTERVAL_MS)

----------------------------------------------------------------------------
\* Claims on the browser pool of the worker

\* C22: the worker process launches at most one browser, and every browsing
\* context is created on that browser.
C22_OneBrowser == launches <= 1 /\ Cardinality(contextLog) <= 1

----------------------------------------------------------------------------
\* Claims on browsing contexts, concurrency and the polling engine

\* processUrl of row r has returned (or has not been called).
Returned(r) == rowProc[r].pc \in {"idle", "mark", "update", "settled"}
InProcessUrl(r) == rowProc[r].pc \in {"newctx", "goto", "extract", "close"}

\* C21: no browsing context of a scrape is open once the scrape call has
\* returned, and in processUrl none is open when the next attempt starts:
\* for scrapeUrl of the worker and for every attempt of processUrl.
C21_ContextsClosed ==
    /\ \A j \in DOMAIN scrapes :
          scrapes[j].pc = "done" => ~\E c \in contexts : c.owner = j
    /\ \A r \in DOMAIN rowProc :
          (Returned(r) \/ rowProc[r].pc = "newctx") => ~rowProc[r].ctx
C21_Witness ==
    \E r \in DOMAIN rowProc :
        /\ rowProc[r].pc = "settled" /\ ~rowProc[r].ctx
        /\ rowProc[r].attempt = 3 /\ rowProc[r].raised = 1 /\ rowProc[r].extracted = 1

\* C23: the open contexts of the worker never exceed WORKER_CONCURRENCY; the
\* scrapes of a polling engine in flight are rows of the current batch, which
\* has at most PARALLEL_BATCH_SIZE rows, and none is in flight between
\* batches.
C23_ConcurrencyBound ==
    /\ Cardinality(contexts) <= WORKER_CONCURRENCY
    /\ Cardinality({j \in DOMAIN scrapes : InFlight(j)}) <= WORKER_CONCURRENCY
    /\ Cardinality({r \in DOMAIN rowProc : rowProc[r].ctx}) <= PARALLEL_BATCH_SIZE
    /\ Cardinality(cycle.batch) <= PARALLEL_BATCH_SIZE
    /\ \A r \in DOMAIN rowProc :
          rowProc[r].pc \notin {"idle", "settled"}
              => (cycle.pc = "batch" /\ r \in cycle.batch)
C23_Witness ==
    /\ Cardinality(contexts) = WORKER_CONCURRENCY
    /\ \E j \in DOMAIN scrapes : scrapes[j].pc = "queued"

\* C28: a row whose every scrape attempt raised an error ends with status
\* 'Failed', and a row ends with 'Done' only when its scrape finished by
\* extracting.
C28_ErrorsEndFailed ==
    \A r \in DOMAIN rowProc :
        rowProc[r].pc = "settled" =>
            /\ (rowProc[r].attempt >= 1 /\ rowProc[r].raised = rowProc[r].attempt)
                  => sheet[r] = "Failed"
            /\ sheet[r] = "Done" => rowProc[r].why = "return"

\* C29: processUrl makes at most max(1, number of sessions) attempts, a call
\* that has started returns, and it returns an email only if an attempt
\* extracted one (null otherwise).
C29_BoundedAttempts ==
    /\ [](\A r \in EngineRows :
            /\ rowProc[r].attempt <= (IF Len(cookieSessions) >= 1
                                      THEN Len(cookieSessions) ELSE 1)
            /\ (Returned(r) /\ rowProc[r].why # "return") => rowProc[r].result = NoEmail)
    /\ \A r \in EngineRows : InProcessUrl(r) ~> Returned(r)
C29_Witness ==
    /\ Len(cookieSessions) = 3
    /\ \E r \in DOMAIN rowProc :
          /\ rowProc[r].pc = "settled" /\ rowProc[r].attempt = 3
          /\ rowProc[r].extracted = 0 /\ rowProc[r].result = NoEmail

\* The step in which page.goto of row r lands on a login / checkpoint url.
LandsOnLogin(r) ==
    rowProc[r].pc = "goto" /\ rowProc'[r].why \in {"retry-login", "login-kept"}
\* The step that ends an attempt given up after a login redirect.
EndsLoginAttempt(r) ==
    rowProc[r].pc = "close" /\ rowProc[r].why = "retry-login" /\ rowProc'[r].pc # "close"
LoginStep(r) ==
    LandsOnLogin(r) =>
        IF Len(cookieSessions) <= 1
        THEN /\ currentSessionIndex' = currentSessionIndex
             /\ rowProc'[r].pc = "extract"
             /\ rowProc'[r].attempt = rowProc[r].attempt
        ELSE /\ currentSessionIndex' = (currentSessionIndex + 1) % Len(cookieSessions)
             /\ rowProc'[r].pc = "close"
             /\ rowProc'[r].extracted = rowProc[r].extracted

\* C30 as stated: on a login or checkpoint url processUrl advances the cursor
\* and starts a new attempt without extracting; with 0 or 1 session it goes on
\* to extraction in the same attempt.
C30_LoginStartsNewAttempt ==
    [][\A r \in EngineRows :
          /\ LoginStep(r)
          /\ EndsLoginAttempt(r) =>
                /\ rowProc'[r].pc = "newctx"
                /\ rowProc'[r].attempt = rowProc[r].attempt + 1
                /\ rowProc'[r].extracted = rowProc[r].extracted]_vars
\* C30 (amended): on a login or checkpoint url processUrl advances the cursor
\* and gives the attempt up without extracting; a new attempt starts if
\* attempts are left, else processUrl returns null. With 0 or 1 session it
\* goes on to extraction in the same attempt.
C30_LoginRetriesWhileAttemptsLeft ==
    [][\A r \in EngineRows :
          /\ LoginStep(r)
          /\ EndsLoginAttempt(r) =>
                /\ rowProc'[r].extracted = rowProc[r].extracted
                /\ IF rowProc[r].attempt < rowProc[r].maxRetries
                   THEN /\ rowProc'[r].pc = "newctx"
                        /\ rowProc'[r].attempt = rowProc[r].attempt + 1
                   ELSE /\ rowProc'[r].pc = "update"
                        /\ rowProc'[r].result = NoEmail]_vars
C30_Witness ==
    /\ Len(cookieSessions) = 2
    /\ currentSessionIndex = 1
    /\ \E r \in DOMAIN rowProc :
          /\ rowProc[r].pc = "newctx" /\ rowProc[r].attempt = 2
          /\ rowProc[r].raised = 0 /\ rowProc[r].extracted = 0

----------------------------------------------------------------------------
\* Claims on the polling jobs of JobManager

\* The loop of the job has ended, and its last iteration had failed.
EndedWithError(j) == jobs[j].loop = "ended" /\ (jobs[j].loopError \/ jobs[j].lastPoll = "error")

\* C27: a job whose polling loop ended with an error has status 'error'
\* afterwards (until a later stopJob moves it to 'stopping' / 'stopped'),
\* 'completed' is the status only of a job whose loop ended without error,
\* and getJobStatus of a known job is always one of running, stopping,
\* stopped, completed, error.
C27_ErrorStatusKept ==
    \A j \in JobIds :
        InMap(j) =>
            /\ GetJobStatus(j) \in JobStatuses
            /\ EndedWithError(j) => GetJobStatus(j) \in {"error", "stopping", "stopped"}
            /\ GetJobStatus(j) = "completed" => (jobs[j].loop = "ended" /\ ~EndedWithError(j))

----------------------------------------------------------------------------
\* Claims on service startup

\* C26: a service (worker, syncer, ingestor, API) that is started while
\* Redis is unreachable aborts its startup: it is never a running process
\* without a working queue connection.
C26_AbortsWithoutRedis ==
    \A s \in Services :
        (services[s].phase # "down" /\ ~services[s].redisAtStart)
            => services[s].phase = "aborted"

----------------------------------------------------------------------------
\* Claims on cursor rotation in both scraper classes

\* C31 as stated: with n >= 2 sessions every rotateCookie() call, of
\* ScraperEngine or of ScraperParallel, moves the cursor of its object to
\* (previous + 1) mod n and returns true.
C31_RotationReturnsTrue ==
    [][(Len(cookieSessions) >= 2 /\ rotateCalls' # rotateCalls)
          => \/ /\ currentSessionIndex' = (currentSessionIndex + 1) % Len(cookieSessions)
                /\ rotateReturned' = "true"
                /\ parallelIndex' = parallelIndex
             \/ /\ parallelIndex' = (parallelIndex + 1) % Len(cookieSessions)
                /\ parallelReturned'.type = "boolean"
                /\ currentSessionIndex' = currentSessionIndex]_vars

\* C31, amended: with n >= 2 sessions every rotateCookie() call moves the
\* cursor to (previous + 1) mod n; ScraperEngine's returns true and
\* ScraperParallel's returns the new cursor; with any number of sessions both
\* cursors stay within 0 .. max(n, 1) - 1, whatever the interleaving of calls.
C31_RotationAdvancesModN ==
    /\ [][(Len(cookieSessions) >= 2 /\ rotateCalls' # rotateCalls)
            => \/ /\ currentSessionIndex' = (currentSessionIndex + 1) % Len(cookieSessions)
                  /\ rotateReturned' = "true"
                  /\ parallelIndex' = parallelIndex
               \/ /\ parallelIndex' = (parallelIndex + 1) % Len(cookieSessions)
                  /\ parallelReturned' = NumberValue(parallelIndex')
                  /\ currentSessionIndex' = currentSessionIndex]_vars
    /\ [](/\ 0 <= currentSessionIndex
          /\ 0 <= parallelIndex
          /\ Len(cookieSessions) >= 1 =>
                 (currentSessionIndex < Len(cookieSessions)
                    /\ parallelIndex < Len(cookieSessions)))
C31_Witness ==
    /\ Len(cookieSessions) = 3
    /\ rotateCalls >= 7
    /\ currentSessionIndex = 0
    /\ rotateReturned = "true"
    /\ parallelIndex = 1
    /\ parallelReturned = NumberValue(1)

----------------------------------------------------------------------------
\* Claims on cookie injection

\* C32: every cookie handed to context.addCookies that carries a sameSite
\* value carries one of 'Strict', 'Lax', 'None', whatever the configured
\* value was.
C32_SameSiteAccepted ==
    \A i \in 1..Len(handed) :
        handed[i].cookie.hasSameSite => handed[i].cookie.sameSite \in Accepted

\* C33: the cookie held in cookieSessions always equals the cookie as it was
\* loaded, and two injections of the session by processUrl hand identical
\* cookies to the browser.
C33_SessionsUnmodified ==
    /\ engineCookie = cookieEnv.cookie
    /\ \A i, j \in 1..Len(handed) :
          (handed[i].by = "engine" /\ handed[j].by = "engine")
              => handed[i].cookie = handed[j].cookie

----------------------------------------------------------------------------
\* Claims on overlapping flushes of the syncer

\* C34: at most one flushBuffer call is in progress at any time (threshold,
\* timer and shutdown flushes never overlap), and no two calls in progress
\* hold the same outcome to write.
C34_OneFlushAtATime ==
    /\ Cardinality({c \in Callers : Active(c)}) <= 1
    /\ \A c, d \in Callers :
          (c # d /\ Active(c) /\ Active(d))
              => Range(frame[c].rowsToSave) \cap Range(frame[d].rowsToSave) = {}

----------------------------------------------------------------------------
\* Claims on the progress of buffered outcomes

\* The outcomes processResult may hand to bufferResult.
OutcomeRecords ==
    {[seq |-> n, sheetId |-> s, rowIndex |-> r, status |-> "Done"] :
        n \in 1..MaxOutcomes, s \in Sheets, r \in RowIndexes}
\* The flush timer of the model has started all the flushes it may start.
TimerFlushesSpent == flushCalls["timer"] >= MaxTimerFlushes

\* C35: while the syncer keeps running and its timer keeps firing, every
\* outcome added to the buffer (for a row of the sheet) is eventually written
\* to the sheet or removed by a logged drop.
C35_BufferedEventuallySettled ==
    \A o \in OutcomeRecords :
        (o \in Range(accepted) /\ RowExists(o.sheetId, o.rowIndex))
            ~> (Written(o) \/ o \in dropped \/ TimerFlushesSpent)

----------------------------------------------------------------------------
\* Claims on the session a retry injects

\* C36: within one processUrl call, an attempt that follows a failed attempt
\* and a successful rotation injects a session different from the one the
\* failed attempt injected, also while other processUrl calls rotate the
\* cursor.
C36_RetryUsesOtherSession ==
    \A r \in EngineRows :
        (InProcessUrl(r) /\ rowProc[r].attempt >= 2) => ~rowProc[r].reused

----------------------------------------------------------------------------
\* Claims on the pipeline from the sheet to the sheet

\* An outcome of a scraped task of the row is waiting in the results queue,
\* or is in the syncer buffer, or is held by a flush that has yet to write it.
OutcomeUnwritten(sheetId, rowIndex) ==
    \/ \E rj \in resultsQueue :
          /\ rj.state = "waiting"
          /\ rj.data.sheetId = sheetId
          /\ rj.data.rowIndex = rowIndex
    \/ \E o \in Range(accepted) :
          /\ o.sheetId = sheetId
          /\ o.rowIndex = rowIndex
          /\ InBuffer(o) \/ \E c \in Callers : PendingWrite(c, o)

\* C37: no scrape task is added to the queue for a row whose earlier task
\* has been scraped and whose outcome is not yet written to the sheet.
C37_NoTaskWhileOutcomeUnwritten ==
    [][\A job \in scrapeQueue' :
          ~HasJob(scrapeQueue, job.id)
              => ~OutcomeUnwritten(job.data.sheetId, job.data.rowIndex)]_vars

----------------------------------------------------------------------------
\* Claims on the shutdown of the ingestor

\* C38: once the shutdown handler of the ingestor has set isRunning to
\* false, no scrape task is added to the queue and no poll timeout is armed,
\* also when a poll was in progress when the signal arrived.
C38_NothingAfterShutdown ==
    [][(~isRunning /\ ingestProc = "closing")
          => /\ \A job \in scrapeQueue' : HasJob(scrapeQueue, job.id)
             /\ timeoutId' = 0]_vars

----------------------------------------------------------------------------
\* Claims on the jobs of a sheet

\* C39: at most one job of status 'running' exists per sheetId, also when
\* two startJob calls for the same sheet overlap.
C39_OneRunningJobPerSheet ==
    \A s \in JobSheets : Cardinality(FindJobBySheetId(s)) <= 1

----------------------------------------------------------------------------
\* Claims on the response of POST /api/start-queue

\* C40: the jobsAdded field of the response of POST /api/start-queue is the
\* number of tasks the request put into the queue; an item whose jobId is
\* already in the queue is not counted.
C40_JobsAddedCountsEnqueued ==
    apiResponse.sent => apiResponse.jobsAdded = apiResponse.enqueued

====
